---- MODULE Spec2Model ----
(***************************************************************************)
(* newsletter2paper: the publications router, the issues router and the    *)
(* three PDF engines, as state machines over the tables of the relational  *)
(* store.  Every handler is wrapped in `try: ... except Exception`, and    *)
(* fastapi.HTTPException is an Exception, which the model keeps.           *)
(***************************************************************************)
EXTENDS Integers, Sequences, FiniteSets, TLC

VARIABLES
    publications,   \* table publications: rows in insertion order
    pubResp,        \* the last response of the publications router
    issues,         \* table issues: set of rows
    issue_publications, \* table issue_publications: set of rows
    post,           \* the POST /issues/{id}/publications request in flight
    issueResp,      \* the last response of POST/PUT/GET /issues
    linkResp,       \* the last response of POST /issues/{id}/publications
    getResp,        \* the last response of GET /issues/{id}/publications
    pdfRun,         \* the last run of a PDF engine: inputs, effects, result
    pdfHttp,        \* the last response of POST /pdf/generate/{issue_id}
    articlesHttp,   \* the last response of POST /articles/fetch/{issue_id}
    feedPage,       \* a client paging through GET /rss/articles
    discovery,      \* the last run of RSSService.get_feed_url
    aggregation,    \* the last run of fetch_recent_articles_for_issue
    cache,          \* MemoryEfficientCache: entries, total size, clock
    goRun,          \* GoPDFService.generate_pdf_from_issue: its temp files
    articlesTable,  \* table articles: rows in insertion order
    storeOp,        \* the last store_article / store_articles call
    monitor,        \* MemoryMonitor: baseline, peak, measurements
    manager,        \* MemoryManager: callbacks and the events of the last run
    linkRace,       \* two POST /issues/{id}/publications in flight
    pubRace         \* two requests creating a publication in flight

vars == <<publications, pubResp, issues, issue_publications, post,
          issueResp, linkResp, getResp, pdfRun, pdfHttp, articlesHttp,
          feedPage, discovery, aggregation, cache, goRun,
          articlesTable, storeOp, monitor, manager, linkRace, pubRace>>

pubVars == <<publications, pubResp>>
issueVars == <<issues, issue_publications, post, issueResp, linkResp, getResp>>
pdfVars == <<pdfRun>>
webVars == <<pdfHttp, articlesHttp>>
rssVars == <<feedPage, discovery, aggregation>>
cacheVars == <<cache>>
goVars == <<goRun>>
articleVars == <<articlesTable, storeOp>>
memoryVars == <<monitor, manager>>
raceVars == <<linkRace, pubRace>>
moreVars == <<articleVars, memoryVars, raceVars>>
restVars == <<webVars, rssVars, cacheVars, goVars, moreVars>>

-----------------------------------------------------------------------------
(* Bounds *)

MaxPubs == 3
MaxClock == 2
MaxLinks == 2
MaxArticles == 2
MaxItems == 3       \* items of a feed
MaxFeedItems == 2   \* items of the feed of a publication linked to an issue
MaxTotalSize == 11  \* cap of the cache's running total_size
MaxStores == 3      \* store_article calls, each reading the clock once
MaxBatch == 2       \* articles of one store_articles call
MaxRecorded == 4    \* record_measurement calls
MaxCallbacks == 2   \* registered cleanup callbacks

-----------------------------------------------------------------------------
(* HTTP statuses and the handlers' exception discipline *)

HTTP_OK == 200
HTTP_BAD_REQUEST == 400
HTTP_NOT_FOUND == 404
HTTP_SERVER_ERROR == 500
HTTP_UNPROCESSABLE == 422   \* the framework's answer to a request it cannot validate

\* What leaves the body of a handler: a returned value, a raised
\* HTTPException(status) or any other raised exception.
Returned == [kind |-> "return", status |-> HTTP_OK]
RaisedHTTP(status) == [kind |-> "HTTPException", status |-> status]
RaisedOther == [kind |-> "Exception", status |-> 0]

\* `except Exception as e: raise HTTPException(status_code=500, ...)`:
\* every exception raised in the body, an HTTPException included, leaves
\* the handler as status 500.
ExceptException(outcome) ==
    IF outcome.kind = "return" THEN HTTP_OK ELSE HTTP_SERVER_ERROR

-----------------------------------------------------------------------------
(* Publications router *)

Urls == {"u1", "u2"}
Feeds == {"f1", "f2"}
Titles == {"t1", "t2"}
SelectOutcomes == {"ok", "raise"}
InsertOutcomes == {"ok", "empty", "raise"}

NoRow == [id |-> 0, title |-> "", url |-> "", rss_feed_url |-> ""]

CreatePublicationRequest == [title : Titles, url : Urls, rss_feed_url : Feeds]

\* .select(...).eq('url', url): the stored rows with that url, in table order
SelectByUrl(table, url) == SelectSeq(table, LAMBDA row : row.url = url)

\* `.eq('rss_feed_url', ...)` in place of `.eq('url', ...)`
SelectByFeedUrl(table, request) ==
    SelectSeq(table, LAMBDA row : row.rss_feed_url = request.rss_feed_url)

\* The existence check skipped: nothing is ever found.
ExistingNothing(table, request) == << >>

\* The pre-insert existence check of both creating endpoints.
Existing(table, request) == SelectByUrl(table, request.url)

\* publication_data with the server-generated id
publication_data(table, request) ==
    [id |-> Len(table) + 1, title |-> request.title, url |-> request.url,
     rss_feed_url |-> request.rss_feed_url]

\* The body of create_publication: <<outcome, table', returned row>>
create_publication_body(table, request, sel, ins) ==
    IF sel = "raise" THEN <<RaisedOther, table, NoRow>>
    ELSE IF Existing(table, request) # << >>
    THEN <<RaisedHTTP(HTTP_BAD_REQUEST), table, NoRow>>
    ELSE IF ins = "raise" THEN <<RaisedOther, table, NoRow>>
    ELSE IF ins = "empty" THEN <<RaisedHTTP(HTTP_SERVER_ERROR), table, NoRow>>
    ELSE <<Returned, Append(table, publication_data(table, request)),
           publication_data(table, request)>>

\* The body of find_or_create_publication: <<outcome, table', row, created>>
find_or_create_body(table, request, sel, ins) ==
    IF sel = "raise" THEN <<RaisedOther, table, NoRow, FALSE>>
    ELSE IF Existing(table, request) # << >>
    THEN <<Returned, table, Existing(table, request)[1], FALSE>>
    ELSE IF ins = "raise" THEN <<RaisedOther, table, NoRow, FALSE>>
    ELSE IF ins = "empty"
    THEN <<RaisedHTTP(HTTP_SERVER_ERROR), table, NoRow, FALSE>>
    ELSE <<Returned, Append(table, publication_data(table, request)),
           publication_data(table, request), TRUE>>

NoPubResp ==
    [op |-> "none", request |-> [title |-> "", url |-> "", rss_feed_url |-> ""],
     status |-> 0, publication |-> NoRow, created |-> FALSE, sel |-> "ok",
     ins |-> "ok", before |-> << >>]

\* POST /publications
create_publication(request, sel, ins) ==
    LET r == create_publication_body(publications, request, sel, ins) IN
    /\ Len(r[2]) <= MaxPubs
    /\ publications' = r[2]
    /\ pubResp' = [op |-> "create", request |-> request,
                   status |-> ExceptException(r[1]),
                   publication |-> r[3], created |-> FALSE,
                   sel |-> sel, ins |-> ins, before |-> publications]
    /\ UNCHANGED <<issueVars, pdfVars, restVars>>

\* POST /publications/find-or-create
find_or_create_publication(request, sel, ins) ==
    LET r == find_or_create_body(publications, request, sel, ins) IN
    /\ Len(r[2]) <= MaxPubs
    /\ publications' = r[2]
    /\ pubResp' = [op |-> "find_or_create", request |-> request,
                   status |-> ExceptException(r[1]),
                   publication |-> r[3], created |-> r[4],
                   sel |-> sel, ins |-> ins, before |-> publications]
    /\ UNCHANGED <<issueVars, pdfVars, restVars>>

-----------------------------------------------------------------------------
(* Issues router: POST /issues, PUT /issues/{id}, GET /issues/{id} *)

IssueIds == {1, 2}              \* the ids the store generates
RequestIssueIds == IssueIds \cup {3}   \* 3 is never stored
Formats == {"newspaper", "essay"}
RequestFormats == Formats \cup {"tabloid"}  \* refused by the format check
Absent == "None"                \* an Optional[str] field left out

NoIssue == [id |-> 0, title |-> "", format |-> "", updated_at |-> 0]

CreateIssueRequest == [title : Titles, format : RequestFormats]
UpdateIssueRequest ==
    [title : Titles \cup {Absent}, format : RequestFormats \cup {Absent}]

\* .eq('id', issue_id)
IssuesById(table, issue_id) == {row \in table : row.id = issue_id}

\* update_data applied to one row: only the supplied fields, and updated_at
UpdatedRow(row, request, now) ==
    [id |-> row.id,
     title |-> IF request.title = Absent THEN row.title ELSE request.title,
     format |-> IF request.format = Absent THEN row.format ELSE request.format,
     updated_at |-> now]

\* The body of create_issue: <<outcome, table', returned row>>
create_issue_body(table, request, now, ins) ==
    LET row == [id |-> Cardinality(table) + 1, title |-> request.title,
                format |-> request.format, updated_at |-> now] IN
    IF ins = "raise" \/ request.format \notin Formats
    THEN <<RaisedOther, table, NoIssue>>
    ELSE IF ins = "empty" THEN <<RaisedHTTP(HTTP_SERVER_ERROR), table, NoIssue>>
    ELSE <<Returned, table \cup {row}, row>>

\* The body of update_issue: <<outcome, table', returned row>>
update_issue_body(table, issue_id, request, now, upd) ==
    LET matched == IssuesById(table, issue_id)
        updated == {UpdatedRow(row, request, now) : row \in matched} IN
    IF upd = "raise" \/ (matched # {} /\ request.format \notin Formats \cup {Absent})
    THEN <<RaisedOther, table, NoIssue>>
    ELSE IF updated = {}
    THEN <<RaisedHTTP(HTTP_NOT_FOUND), table, NoIssue>>
    ELSE <<Returned, (table \ matched) \cup updated, CHOOSE row \in updated : TRUE>>

\* The body of get_issue: <<outcome, returned row>>
get_issue_body(table, issue_id, sel) ==
    LET matched == IssuesById(table, issue_id) IN
    IF sel = "raise" THEN <<RaisedOther, NoIssue>>
    ELSE IF matched = {} THEN <<RaisedHTTP(HTTP_NOT_FOUND), NoIssue>>
    ELSE <<Returned, CHOOSE row \in matched : TRUE>>

NoIssueResp ==
    [op |-> "none", issue_id |-> 0, status |-> 0, issue |-> NoIssue,
     db |-> "ok", before |-> {}]

\* POST /issues
create_issue(request, now, ins) ==
    LET r == create_issue_body(issues, request, now, ins) IN
    /\ Cardinality(issues) < Cardinality(IssueIds)
    /\ issues' = r[2]
    /\ issueResp' = [op |-> "create", issue_id |-> r[3].id,
                     status |-> ExceptException(r[1]), issue |-> r[3],
                     db |-> ins, before |-> issues]
    /\ UNCHANGED <<issue_publications, post, linkResp, getResp, pubVars, pdfVars, restVars>>

\* PUT /issues/{issue_id}
update_issue(issue_id, request, now, upd) ==
    LET r == update_issue_body(issues, issue_id, request, now, upd) IN
    /\ issues' = r[2]
    /\ issueResp' = [op |-> "update", issue_id |-> issue_id,
                     status |-> ExceptException(r[1]), issue |-> r[3],
                     db |-> upd, before |-> issues]
    /\ UNCHANGED <<issue_publications, post, linkResp, getResp, pubVars, pdfVars, restVars>>

\* GET /issues/{issue_id}
get_issue(issue_id, sel) ==
    LET r == get_issue_body(issues, issue_id, sel) IN
    /\ issueResp' = [op |-> "get", issue_id |-> issue_id,
                     status |-> ExceptException(r[1]), issue |-> r[2],
                     db |-> sel, before |-> issues]
    /\ UNCHANGED <<issues, issue_publications, post, linkResp, getResp,
                   pubVars, pdfVars, restVars>>

-----------------------------------------------------------------------------
(* Issues router: POST and GET /issues/{id}/publications *)

PubIds == {1, 2}
SeqUpTo(S, n) == UNION {[1..k -> S] : k \in 0..n}

\* class PublicationSettings
PublicationSettings(publication_id, remove_images) ==
    [publication_id |-> publication_id, remove_images |-> remove_images]

SettingsSet == {PublicationSettings(p, b) : p \in PubIds, b \in BOOLEAN}

\* class AddPublicationsRequest; has_publications is `publications is not
\* None`.  A request carries at most MaxLinks entries over its two lists.
AddPublicationsRequest ==
    {r \in [publication_ids : SeqUpTo(PubIds, MaxLinks),
            has_publications : BOOLEAN,
            publications : SeqUpTo(SettingsSet, MaxLinks)] :
        /\ ~r.has_publications => r.publications = << >>
        /\ Len(r.publication_ids) + Len(r.publications) <= MaxLinks}

NoRequest ==
    [publication_ids |-> << >>, has_publications |-> FALSE, publications |-> << >>]

Range(seq) == {seq[k] : k \in 1..Len(seq)}

\* Truthiness of request.publications: None and [] are both false.
PublicationsTruthy(request) ==
    request.has_publications /\ request.publications # << >>

\* `request.publications is not None`
PublicationsNotNone(request) == request.has_publications

\* The legacy ids converted with remove_images=True
publications_to_add_true(request) ==
    IF PublicationsTruthy(request) THEN request.publications
    ELSE [k \in 1..Len(request.publication_ids) |->
            PublicationSettings(request.publication_ids[k], TRUE)]

\* publications_to_add of add_publications_to_issue
publications_to_add(request) ==
    IF PublicationsTruthy(request) THEN request.publications
    ELSE IF request.publication_ids # << >>
    THEN [k \in 1..Len(request.publication_ids) |->
            PublicationSettings(request.publication_ids[k], FALSE)]
    ELSE << >>

\* issue_publications_data: one row per entry of publications_to_add
issue_publications_data(issue_id, to_add) ==
    [k \in 1..Len(to_add) |->
        [issue_id |-> issue_id, publication_id |-> to_add[k].publication_id,
         remove_images |-> to_add[k].remove_images]]

\* The composite primary key of issue_publications
KeyOf(row) == <<row.issue_id, row.publication_id>>

PrimaryKeyViolation(table, data) ==
    \/ \E j, k \in 1..Len(data) : j < k /\ KeyOf(data[j]) = KeyOf(data[k])
    \/ \E k \in 1..Len(data) : \E row \in table : KeyOf(row) = KeyOf(data[k])

\* .delete().eq('issue_id', issue_id) touching every issue
DeleteAllLinks(table, issue_id) == {}

\* .delete() that removes nothing
DeleteNoLinks(table, issue_id) == table

\* .delete().eq('issue_id', issue_id)
DeleteLinks(table, issue_id) == {row \in table : row.issue_id # issue_id}

\* .select(...).eq('issue_id', issue_id)
LinksOf(table, issue_id) == {row \in table : row.issue_id = issue_id}

\* The link set of an issue as GET reports it
SettingsOf(table, issue_id) ==
    {PublicationSettings(row.publication_id, row.remove_images) :
        row \in LinksOf(table, issue_id)}

\* The insert and the return of add_publications_to_issue, after the
\* delete: <<outcome, table', publication_count>>
insert_links_body(table, issue_id, request, ins) ==
    LET to_add == publications_to_add(request)
        data == issue_publications_data(issue_id, to_add) IN
    IF to_add = << >> THEN <<Returned, table, 0>>
    ELSE IF ins = "raise" \/ PrimaryKeyViolation(table, data)
    THEN <<RaisedOther, table, 0>>
    ELSE IF ins = "empty" THEN <<RaisedHTTP(HTTP_SERVER_ERROR), table, 0>>
    ELSE <<Returned, table \cup Range(data), Len(to_add)>>

NoPost == [pc |-> "idle", issue_id |-> 0, request |-> NoRequest, before |-> {}]

NoLinkResp ==
    [op |-> "none", issue_id |-> 0, request |-> NoRequest, status |-> 0,
     publication_count |-> 0, before |-> {}]

NoGetResp ==
    [op |-> "none", issue_id |-> 0, status |-> 0, publications |-> {},
     count |-> 0, during |-> FALSE, before |-> {}]

LinkResponse(issue_id, request, outcome, count, before) ==
    [op |-> "add_publications", issue_id |-> issue_id, request |-> request,
     status |-> ExceptException(outcome), publication_count |-> count,
     before |-> before]

\* add_publications_to_issue, up to the check that the issue exists
post_verify(issue_id, request, sel) ==
    /\ post.pc = "idle"
    /\ IF sel = "raise" \/ IssuesById(issues, issue_id) = {}
       THEN /\ post' = [NoPost EXCEPT !.pc = "responded"]
            /\ linkResp' = LinkResponse(issue_id, request,
                    IF sel = "raise" THEN RaisedOther
                    ELSE RaisedHTTP(HTTP_NOT_FOUND), 0, issue_publications)
       ELSE /\ post' = [pc |-> "verified", issue_id |-> issue_id,
                        request |-> request, before |-> issue_publications]
            /\ linkResp' = NoLinkResp
    /\ getResp' = NoGetResp
    /\ UNCHANGED <<issues, issue_publications, issueResp, pubVars, pdfVars, restVars>>

\* add_publications_to_issue: the delete of the issue's links
post_delete(del) ==
    /\ post.pc = "verified"
    /\ IF del = "raise"
       THEN /\ post' = [NoPost EXCEPT !.pc = "responded"]
            /\ linkResp' = LinkResponse(post.issue_id, post.request,
                                        RaisedOther, 0, post.before)
            /\ UNCHANGED issue_publications
       ELSE /\ post' = [post EXCEPT !.pc = "deleted"]
            /\ linkResp' = NoLinkResp
            /\ issue_publications' = DeleteLinks(issue_publications, post.issue_id)
    /\ getResp' = NoGetResp
    /\ UNCHANGED <<issues, issueResp, pubVars, pdfVars, restVars>>

\* add_publications_to_issue: the bulk insert and the response
post_insert(ins) ==
    LET r == insert_links_body(issue_publications, post.issue_id,
                               post.request, ins) IN
    /\ post.pc = "deleted"
    /\ issue_publications' = r[2]
    /\ linkResp' = LinkResponse(post.issue_id, post.request, r[1], r[3],
                                post.before)
    /\ post' = [NoPost EXCEPT !.pc = "responded"]
    /\ getResp' = NoGetResp
    /\ UNCHANGED <<issues, issueResp, pubVars, pdfVars, restVars>>

\* The response of add_publications_to_issue reaches the client
post_return ==
    /\ post.pc = "responded"
    /\ post' = NoPost
    /\ linkResp' = NoLinkResp
    /\ UNCHANGED <<issues, issue_publications, issueResp, getResp, pubVars, pdfVars, restVars>>

\* GET /issues/{issue_id}/publications
get_issue_publications(issue_id, sel) ==
    /\ post.pc # "responded"
    /\ getResp' =
        [op |-> "get_publications", issue_id |-> issue_id,
         status |-> ExceptException(IF sel = "raise" THEN RaisedOther ELSE Returned),
         publications |-> IF sel = "raise" THEN {}
                          ELSE SettingsOf(issue_publications, issue_id),
         count |-> IF sel = "raise" THEN 0
                   ELSE Cardinality(SettingsOf(issue_publications, issue_id)),
         during |-> post.pc = "deleted" /\ post.issue_id = issue_id,
         before |-> IF post.pc = "idle" THEN issue_publications ELSE post.before]
    /\ UNCHANGED <<issues, issue_publications, post, issueResp, linkResp,
                   pubVars, pdfVars, restVars>>

-----------------------------------------------------------------------------
(* The three PDF engines: generate_pdf_from_issue *)

Messages == {"", "boom"}        \* str(e) of an exception raised by a callee
ContentOutcomes == {"ok", "none", "raise"}
AggOutcomes == {"raise", "none", "data"}
CliOutcomes == {"ok", "nonzero", "nonzero_stderr", "timeout", "not_found", "raise"}

NO_ARTICLES_ERROR == "No articles found for the specified issue and date range"
NO_CONTENT_ERROR == "No article content could be fetched"
NO_WEASYPRINT_ERROR == "WeasyPrint not available. Install with: pip install weasyprint"
GO_NO_ARTICLES_ERROR == "No articles provided"
GO_NO_PDF_ERROR == "PDF file was not created by Go service"
GO_TIMEOUT_MESSAGE == "PDF generation timed out after 120 seconds"
GO_NOT_FOUND_MESSAGE == "Go PDF service not available: "

\* `result` as generate_pdf_from_issue initialises it; error None is ""
InitialResult ==
    [success |-> FALSE, error |-> "", pdf_url |-> "", articles_count |-> 0,
     raised |-> FALSE]

NoEffects == [fetches |-> 0, renders |-> 0, uploads |-> 0, failures |-> {}]

\* What the try block does: it returns `result` or raises exc ("" = none)
Returns(result, effects) ==
    [result |-> result, exc |-> "", msg |-> "", effects |-> effects]
Raises(exc, msg, effects) ==
    [result |-> InitialResult, exc |-> exc, msg |-> msg, effects |-> effects]

Failing(error) == [InitialResult EXCEPT !.error = error]
Succeeding(count) ==
    [InitialResult EXCEPT !.success = TRUE, !.pdf_url = "url",
                          !.articles_count = count]

\* The articles whose content was fetched and cleaned
OkArticles(in) == {k \in 1..in.total : in.content[k] = "ok"}
ContentFailures(in) ==
    IF \E k \in 1..in.total : in.content[k] # "ok" THEN {"content"} ELSE {}

\* Only `not articles_data`, without the total_articles check
NoArticlesDataOnly(in) == in.agg = "none"

\* `not articles_data or articles_data['total_articles'] == 0`
NoArticles(in) == in.agg = "none" \/ in.total = 0

\* Stage numbers of PDFService after the content loop
PdfStage(stage) ==
    CASE stage = "html" -> 1 [] stage = "images" -> 2
      [] stage = "filename" -> 3 [] stage = "save_html" -> 4
      [] stage = "render" -> 5 [] stage = "upload" -> 6 [] OTHER -> 99
PdfStages == {"html", "images", "filename", "save_html", "render", "upload"}

\* The try block of PDFService.generate_pdf_from_issue
PDFService_try(in) ==
    LET ok == Cardinality(OkArticles(in))
        failAt == IF in.fail = "save_html" /\ ~in.keep_html THEN 99
                  ELSE PdfStage(in.fail)
        loop == [NoEffects EXCEPT !.fetches = in.total,
                                  !.failures = ContentFailures(in)] IN
    IF in.agg = "raise"
    THEN Raises("Exception", in.msg, [NoEffects EXCEPT !.failures = {"aggregation"}])
    ELSE IF NoArticles(in)
    THEN Returns(Failing(NO_ARTICLES_ERROR), NoEffects)
    ELSE IF ok = 0 THEN Returns(Failing(NO_CONTENT_ERROR), loop)
    ELSE IF failAt <= 4
    THEN Raises("Exception", in.msg,
                [loop EXCEPT !.failures = @ \cup {in.fail}])
    ELSE IF ~in.weasy
    THEN Returns(Failing(NO_WEASYPRINT_ERROR),
                 [loop EXCEPT !.failures = @ \cup {"weasyprint"}])
    ELSE IF failAt = 5
    THEN Raises("Exception", in.msg,
                [loop EXCEPT !.renders = 1, !.failures = @ \cup {in.fail}])
    ELSE IF failAt = 6
    THEN Raises("Exception", in.msg,
                [loop EXCEPT !.renders = 1, !.uploads = 1,
                             !.failures = @ \cup {in.fail}])
    ELSE Returns(Succeeding(ok), [loop EXCEPT !.renders = 1, !.uploads = 1])

\* A handler that lets the exception through
Reraise(run, prefix) ==
    [run EXCEPT !.result.raised = run.exc # ""]

\* `except Exception as e: result['error'] = f"<prefix>{str(e)}"`, then
\* `return result`
ExceptToResult(run, prefix) ==
    IF run.exc = "" THEN run
    ELSE [run EXCEPT !.result.error = prefix \o run.msg]

PDFService_generate_pdf_from_issue(in) ==
    ExceptToResult(PDFService_try(in), "PDF generation failed: ")

ReportLabStages == {"filename", "advanced", "fallback", "upload"}

\* The try block of ReportLabPDFService.generate_pdf_from_issue; fail =
\* "fallback" is create_advanced_pdf and _create_pdf_document both raising
ReportLab_try(in) ==
    LET ok == Cardinality(OkArticles(in))
        loop == [NoEffects EXCEPT !.fetches = in.total,
                                  !.failures = ContentFailures(in)] IN
    IF in.agg = "raise"
    THEN Raises("Exception", in.msg, [NoEffects EXCEPT !.failures = {"aggregation"}])
    ELSE IF NoArticles(in)
    THEN Returns(Failing(NO_ARTICLES_ERROR), NoEffects)
    ELSE IF ok = 0 THEN Returns(Failing(NO_CONTENT_ERROR), loop)
    ELSE IF in.fail = "filename"
    THEN Raises("Exception", in.msg,
                [loop EXCEPT !.failures = @ \cup {"filename"}])
    ELSE IF in.fail = "fallback"
    THEN Raises("Exception", in.msg,
                [loop EXCEPT !.renders = 2,
                             !.failures = @ \cup {"advanced", "fallback"}])
    ELSE LET rendered ==
                IF in.fail = "advanced"
                THEN [loop EXCEPT !.renders = 2, !.failures = @ \cup {"advanced"}]
                ELSE [loop EXCEPT !.renders = 1] IN
         IF in.fail = "upload"
         THEN Raises("Exception", in.msg,
                     [rendered EXCEPT !.uploads = 1, !.failures = @ \cup {"upload"}])
         ELSE Returns(Succeeding(ok), [rendered EXCEPT !.uploads = 1])

ReportLab_generate_pdf_from_issue(in) ==
    ExceptToResult(ReportLab_try(in), "ReportLab PDF generation failed: ")

GoStages == {"paths", "prepare", "write_json", "read", "filename", "upload"}

\* _execute_go_cli: the exception it raises, if any, as <<type, str(e)>>
execute_go_cli_raises(in) ==
    CASE in.cli = "timeout" -> <<"TimeoutError", GO_TIMEOUT_MESSAGE>>
      [] in.cli = "not_found" -> <<"Exception", GO_NOT_FOUND_MESSAGE \o in.msg>>
      [] in.cli = "raise" -> <<"Exception", in.msg>>
      [] OTHER -> <<"", "">>

\* The try block of GoPDFService.generate_pdf_from_issue; its result starts
\* with articles_count = len(articles)
GoPDFService_try(in) ==
    LET init == [InitialResult EXCEPT !.articles_count = in.total]
        raise(exc, msg, eff) ==
            [result |-> init, exc |-> exc, msg |-> msg, effects |-> eff]
        fail(error, eff) == Returns([init EXCEPT !.error = error], eff)
        F(stage) == [NoEffects EXCEPT !.failures = {stage}] IN
    IF in.total = 0 THEN fail(GO_NO_ARTICLES_ERROR, NoEffects)
    ELSE IF in.fail \in {"paths", "prepare", "write_json"}
    THEN raise("Exception", in.msg, F(in.fail))
    ELSE IF execute_go_cli_raises(in)[1] # ""
    THEN raise(execute_go_cli_raises(in)[1], execute_go_cli_raises(in)[2],
               [NoEffects EXCEPT !.renders = 1, !.failures = {"cli"}])
    ELSE LET ran == [NoEffects EXCEPT !.renders = 1] IN
         IF in.cli = "nonzero"
         THEN fail("Go CLI failed with exit code 1", [ran EXCEPT !.failures = {"cli"}])
         ELSE IF in.cli = "nonzero_stderr"
         THEN fail("Go CLI failed with exit code 1: " \o in.msg,
                   [ran EXCEPT !.failures = {"cli"}])
         ELSE IF ~in.pdf_created
         THEN fail(GO_NO_PDF_ERROR, [ran EXCEPT !.failures = {"cli"}])
         ELSE IF in.fail \in {"read", "filename"}
         THEN raise("Exception", in.msg, [ran EXCEPT !.failures = {in.fail}])
         ELSE IF in.fail = "upload"
         THEN raise("Exception", in.msg,
                    [ran EXCEPT !.uploads = 1, !.failures = {"upload"}])
         ELSE Returns([init EXCEPT !.success = TRUE, !.pdf_url = "url"],
                      [ran EXCEPT !.uploads = 1])

\* `except TimeoutError as e: result['error'] = str(e)`, then
\* `except Exception as e: result['error'] = f"PDF generation failed: ..."`
GoPDFService_generate_pdf_from_issue(in) ==
    LET run == GoPDFService_try(in) IN
    IF run.exc = "TimeoutError" THEN [run EXCEPT !.result.error = run.msg]
    ELSE ExceptToResult(run, "PDF generation failed: ")

\* The inputs of one run: what the aggregation, the content loop, the
\* stages after it and the external CLI do
SharedInputs ==
    {in \in [agg : AggOutcomes, total : 0..MaxArticles,
             content : SeqUpTo(ContentOutcomes, MaxArticles),
             fail : PdfStages \cup {"none"}, weasy : BOOLEAN,
             keep_html : BOOLEAN, cli : {"ok"}, pdf_created : {TRUE},
             msg : Messages] : Len(in.content) = in.total}

ReportLabInputs ==
    {in \in [agg : AggOutcomes, total : 0..MaxArticles,
             content : SeqUpTo(ContentOutcomes, MaxArticles),
             fail : ReportLabStages \cup {"none"}, weasy : {TRUE},
             keep_html : {FALSE}, cli : {"ok"}, pdf_created : {TRUE},
             msg : Messages] : Len(in.content) = in.total}

GoInputs ==
    {in \in [agg : {"data"}, total : 0..MaxArticles,
             content : SeqUpTo({"ok"}, MaxArticles),
             fail : GoStages \cup {"none"}, weasy : {TRUE},
             keep_html : BOOLEAN, cli : CliOutcomes, pdf_created : BOOLEAN,
             msg : Messages] : Len(in.content) = in.total}

NoRun ==
    [engine |-> "none",
     in |-> [agg |-> "none", total |-> 0, content |-> << >>, fail |-> "none",
             weasy |-> TRUE, keep_html |-> FALSE, cli |-> "ok",
             pdf_created |-> TRUE, msg |-> ""],
     result |-> InitialResult, effects |-> NoEffects]

Ran(engine, in, run) ==
    [engine |-> engine, in |-> in, result |-> run.result, effects |-> run.effects]

PDFServiceRun(in) ==
    /\ pdfRun.engine = "none"
    /\ pdfRun' = Ran("PDFService", in, PDFService_generate_pdf_from_issue(in))
    /\ UNCHANGED <<pubVars, issueVars, restVars>>

ReportLabRun(in) ==
    /\ pdfRun.engine = "none"
    /\ pdfRun' = Ran("ReportLabPDFService", in, ReportLab_generate_pdf_from_issue(in))
    /\ UNCHANGED <<pubVars, issueVars, restVars>>

GoPDFServiceRun(in) ==
    /\ pdfRun.engine = "none"
    /\ pdfRun' = Ran("GoPDFService", in, GoPDFService_generate_pdf_from_issue(in))
    /\ UNCHANGED <<pubVars, issueVars, restVars>>

\* The caller takes the result
PdfReturn ==
    /\ pdfRun.engine # "none"
    /\ pdfRun' = NoRun
    /\ UNCHANGED <<pubVars, issueVars, restVars>>

-----------------------------------------------------------------------------
(* The PDF router: POST /pdf/generate/{issue_id} *)

\* str(e) of the HTTPException the handler raised: starlette renders it as
\* "<status_code>: <detail>"; releases without __str__ render it empty
StrOfHTTPException == {"status: detail", "empty"}

PDF_ROUTER_PREFIX == "PDF generation failed: "

\* layout_type of the request, of the router's Query default and of the
\* service's parameter default
LayoutTypes == {"newspaper", "essay"}
RequestLayoutTypes == LayoutTypes \cup {Absent}
QUERY_LAYOUT_DEFAULT == "newspaper"
SERVICE_LAYOUT_DEFAULT == "newspaper"

\* `layout_type: str = Query("newspaper", ...)`
query_layout_type(given) ==
    IF given = Absent THEN QUERY_LAYOUT_DEFAULT ELSE given

\* The keyword arguments of the router's call of generate_pdf_from_issue:
\* issue_id, days_back, max_articles_per_publication, output_filename,
\* keep_html, verbose; layout_type is not among them
router_passes_layout(layout_type) == Absent

\* The layout create_combined_html is called with
service_layout_type(passed) ==
    IF passed = Absent THEN SERVICE_LAYOUT_DEFAULT ELSE passed

NoPdfHttp ==
    [op |-> "none", status |-> 0, detail |-> "", result |-> InitialResult,
     in |-> NoRun.in, layout_type |-> Absent, rendered |-> FALSE,
     render_layout |-> SERVICE_LAYOUT_DEFAULT]

\* No request is being answered: one request at a time
WebIdle == pdfHttp.op = "none" /\ articlesHttp.op = "none"

\* The try block: the engine's result, then `if not result['success']:
\* raise HTTPException(status_code=400, detail=result.get('error', ...))`
generate_pdf_try(result) ==
    IF ~result.success
    THEN [outcome |-> RaisedHTTP(HTTP_BAD_REQUEST), detail |-> result.error]
    ELSE [outcome |-> Returned, detail |-> "PDF generated successfully"]

\* `except Exception as e: raise HTTPException(status_code=500,
\* detail=f"PDF generation failed: {str(e)}")`
generate_pdf_except(tried, str_e) ==
    [status |-> ExceptException(tried.outcome),
     detail |-> IF tried.outcome.kind = "return" THEN tried.detail
                ELSE IF str_e = "empty" THEN PDF_ROUTER_PREFIX
                ELSE PDF_ROUTER_PREFIX \o "400: " \o tried.detail]

generate_pdf_for_issue(in, str_e, layout_type) ==
    LET run == PDFService_generate_pdf_from_issue(in)
        response == generate_pdf_except(generate_pdf_try(run.result), str_e) IN
    /\ WebIdle
    /\ pdfHttp' = [op |-> "generate", status |-> response.status,
                   detail |-> response.detail, result |-> run.result,
                   in |-> in, layout_type |-> layout_type,
                   rendered |-> run.effects.renders > 0,
                   render_layout |->
                       service_layout_type(router_passes_layout(
                           query_layout_type(layout_type)))]
    /\ UNCHANGED <<pubVars, issueVars, pdfVars, articlesHttp, rssVars,
                   cacheVars, goVars, moreVars>>

-----------------------------------------------------------------------------
(* The articles router: POST /articles/fetch/{issue_id} *)

\* FetchArticlesRequest: two Optional[int] fields, no bounds declared
DaysBack == {-5, 0, 7}
MaxPerPublication == {-1, 0, 5}
FetchArticlesRequest ==
    [days_back : DaysBack, max_articles_per_publication : MaxPerPublication]

\* What rss_service.fetch_recent_articles_for_issue does when called
FetchOutcomes == {"return", "ValueError", "raise"}

NoArticlesHttp ==
    [op |-> "none", uuid_ok |-> TRUE,
     request |-> [days_back |-> 7, max_articles_per_publication |-> 5],
     status |-> 0, invoked |-> FALSE]

\* What the framework validates before the handler runs: the path
\* parameter `issue_id: UUID` and the body against FetchArticlesRequest,
\* whose fields accept every integer
fetch_articles_validates(uuid_ok, request) == uuid_ok

\* try / except ValueError -> 404 / except Exception -> 500
fetch_articles_body(fetch) ==
    CASE fetch = "return" -> HTTP_OK
      [] fetch = "ValueError" -> HTTP_NOT_FOUND
      [] OTHER -> HTTP_SERVER_ERROR

fetch_articles_for_issue(uuid_ok, request, fetch) ==
    /\ WebIdle
    /\ articlesHttp' =
         IF fetch_articles_validates(uuid_ok, request)
         THEN [op |-> "fetch", uuid_ok |-> uuid_ok, request |-> request,
               status |-> fetch_articles_body(fetch), invoked |-> TRUE]
         ELSE [op |-> "fetch", uuid_ok |-> uuid_ok, request |-> request,
               status |-> HTTP_UNPROCESSABLE, invoked |-> FALSE]
    /\ UNCHANGED <<pubVars, issueVars, pdfVars, pdfHttp, rssVars,
                   cacheVars, goVars, moreVars>>

\* The client has read the response
web_response_read ==
    /\ ~WebIdle
    /\ pdfHttp' = NoPdfHttp
    /\ articlesHttp' = NoArticlesHttp
    /\ UNCHANGED <<pubVars, issueVars, pdfVars, rssVars, cacheVars, goVars, moreVars>>

-----------------------------------------------------------------------------
(* RSSService.get_articles and GET /rss/articles *)

\* The date element of a feed item: RFC 2822, ISO 8601, text that is
\* neither, or no element
DateKinds == {"rfc2822", "iso", "unparseable", "missing"}
FeedFetches == {"ok", "RequestException", "ParseError"}

\* A feed document: its item elements in document order; `src` is the
\* position of the element, which identifies the item across requests
Feeds_ == UNION {{[k \in 1..n |-> [src |-> k, date |-> dates[k]]] :
                    dates \in [1..n -> DateKinds]} : n \in 0..MaxItems}

\* date_published of one item: parsedate_tz, else fromisoformat; a missing
\* or unparseable date evaluates `datetime.now(datetime.UTC)`, and the
\* class datetime imported at line 97 has no attribute UTC
date_published_raises(item) == item.date \in {"unparseable", "missing"}

\* The Article built from an item
ArticleOf(item) == [src |-> item.src]
ParsedArticles(feed) == [k \in 1..Len(feed) |-> ArticleOf(feed[k])]

\* Python's seq[start:stop] for integers start and stop
SliceIndex(n, i) == IF i < 0 THEN (IF n + i < 0 THEN 0 ELSE n + i)
                    ELSE (IF i > n THEN n ELSE i)
PySlice(seq, start, stop) ==
    LET lo == SliceIndex(Len(seq), start)
        hi == SliceIndex(Len(seq), stop) IN
    IF hi <= lo THEN << >> ELSE SubSeq(seq, lo + 1, hi)

\* articles[skip:limit]
PaginateUpToLimit(articles, skip, limit) == PySlice(articles, skip, limit)

\* `paginated_articles = articles[skip:skip + limit]`
Paginate(articles, skip, limit) == PySlice(articles, skip, skip + limit)

NoCall ==
    [kind |-> "none", feed |-> << >>, skip |-> 0, limit |-> 1,
     fetch |-> "ok", items |-> << >>, total |-> 0]

\* get_articles(feed_url, skip, limit): (paginated_articles, total_articles)
\* or the exception that leaves it
get_articles(feed, skip, limit, fetch) ==
    LET call == [NoCall EXCEPT !.feed = feed, !.skip = skip,
                               !.limit = limit, !.fetch = fetch] IN
    IF fetch # "ok" THEN [call EXCEPT !.kind = fetch]
    ELSE IF \E k \in 1..Len(feed) : date_published_raises(feed[k])
    THEN [call EXCEPT !.kind = "AttributeError"]
    ELSE [call EXCEPT !.kind = "return",
                      !.items = Paginate(ParsedArticles(feed), skip, limit),
                      !.total = Len(feed)]

\* Query(ge=0) for skip, Query(ge=1, le=20) for limit
LIMIT_MAX == 20
Skips == -1..(MaxItems + 1)
Limits == 0..(MaxItems + 1) \cup {LIMIT_MAX, LIMIT_MAX + 1}
get_feed_articles_validates(skip, limit) ==
    skip >= 0 /\ limit >= 1 /\ limit <= LIMIT_MAX

NoPage ==
    [status |-> 0, items |-> << >>, total |-> 0, skip |-> 0, limit |-> 1,
     has_more |-> FALSE]

\* has_more=(len(articles) < total)
has_more_without_skip(skip, articles, total) == Len(articles) < total

\* `has_more=(skip + len(articles) < total)`
has_more(skip, articles, total) == skip + Len(articles) < total

\* GET /rss/articles: the response
get_feed_articles_response(feed, skip, limit, fetch) ==
    LET call == get_articles(feed, skip, limit, fetch) IN
    IF ~get_feed_articles_validates(skip, limit)
    THEN [NoPage EXCEPT !.status = HTTP_UNPROCESSABLE, !.skip = skip,
                        !.limit = limit]
    ELSE IF call.kind # "return"
    THEN [NoPage EXCEPT !.status = HTTP_SERVER_ERROR, !.skip = skip,
                        !.limit = limit]
    ELSE [status |-> HTTP_OK, items |-> call.items, total |-> call.total,
          skip |-> skip, limit |-> limit,
          has_more |-> has_more(skip, call.items, call.total)]

\* feedPage: the last call of get_articles, the last response of the
\* router, and a client that pages through one feed
NoFeedPage ==
    [call |-> NoCall, resp |-> NoPage, paging |-> "idle", feed |-> << >>,
     skip |-> 0, limit |-> 1, seen |-> << >>]

\* A direct call of the service
get_articles_call(feed, skip, limit, fetch) ==
    /\ feedPage = NoFeedPage
    /\ feedPage' = [NoFeedPage EXCEPT
                        !.call = get_articles(feed, skip, limit, fetch)]
    /\ UNCHANGED <<pubVars, issueVars, pdfVars, webVars, discovery,
                   aggregation, cacheVars, goVars, moreVars>>

\* One request of any client
get_feed_articles(feed, skip, limit, fetch) ==
    /\ feedPage = NoFeedPage
    /\ feedPage' = [NoFeedPage EXCEPT
                        !.feed = feed,
                        !.call = IF get_feed_articles_validates(skip, limit)
                                 THEN get_articles(feed, skip, limit, fetch)
                                 ELSE NoCall,
                        !.resp = get_feed_articles_response(feed, skip,
                                                            limit, fetch)]
    /\ UNCHANGED <<pubVars, issueVars, pdfVars, webVars, discovery,
                   aggregation, cacheVars, goVars, moreVars>>

\* A client starts at skip = 0 with a limit the router accepts
start_paging(feed, limit) ==
    /\ feedPage = NoFeedPage
    /\ get_feed_articles_validates(0, limit)
    /\ feedPage' = [NoFeedPage EXCEPT !.paging = "paging", !.feed = feed,
                                      !.limit = limit]
    /\ UNCHANGED <<pubVars, issueVars, pdfVars, webVars, discovery,
                   aggregation, cacheVars, goVars, moreVars>>

\* The client requests the page at its cursor, keeps the items, and moves
\* the cursor by limit while the response says has_more
next_page(fetch) ==
    LET resp == get_feed_articles_response(feedPage.feed, feedPage.skip,
                                           feedPage.limit, fetch) IN
    /\ feedPage.paging = "paging"
    /\ feedPage' =
         IF resp.status # HTTP_OK THEN [feedPage EXCEPT !.resp = resp]
         ELSE [feedPage EXCEPT
                  !.resp = resp,
                  !.call = get_articles(feedPage.feed, feedPage.skip,
                                        feedPage.limit, fetch),
                  !.seen = @ \o resp.items,
                  !.skip = IF resp.has_more THEN @ + feedPage.limit ELSE @,
                  !.paging = IF resp.has_more THEN "paging" ELSE "done"]
    /\ UNCHANGED <<pubVars, issueVars, pdfVars, webVars, discovery,
                   aggregation, cacheVars, goVars, moreVars>>

\* The caller takes the result; the client is done with the feed
end_paging ==
    /\ feedPage # NoFeedPage
    /\ feedPage.paging \in {"idle", "done"}
    /\ feedPage' = NoFeedPage
    /\ UNCHANGED <<pubVars, issueVars, pdfVars, webVars, discovery,
                   aggregation, cacheVars, goVars, moreVars>>

-----------------------------------------------------------------------------
(* RSSService.get_feed_url *)

\* `common_paths`, in the order the loop tries them
common_paths == <<"/feed", "/rss", "/feed.xml", "/rss.xml", "/atom.xml">>

\* Every path a site of the model answers for
SitePaths == {"/feed", "/rss", "/rss.xml", "/atom.xml",
              "/feeds/posts/default", "/feeds", "/feed.xml", "/index.xml"}

\* The answer to a GET: status 200 with an xml content-type, status 200
\* with text/html, or requests.RequestException
Answers == {"xml", "html", "RequestException"}

WebpageUrls == {"https://site/blog", "site/blog"}
SITE_ROOT == "https://site"

\* A site: what a HEAD of the url would report, the GET of the page, the
\* feed link tag of its head (href, "" when there is none) and the answer
\* of every path
Sites ==
    [url : WebpageUrls, head_is_feed : BOOLEAN,
     page : {"ok", "RequestException"},
     link : {"", "/custom-feed"}, paths : [SitePaths -> Answers]]

\* `if not webpage_url.startswith(('http://', 'https://'))`
WithScheme(url) == IF url = "site/blog" THEN "https://site/blog" ELSE url

\* `test_response.status_code == 200 and 'xml' in content-type`
IsFeedAnswer(answer) == answer = "xml"

\* The loop over common_paths from position k: the requests it issues and
\* the url it returns ("None" when it runs out)
RECURSIVE probe_common_paths(_, _, _)
probe_common_paths(site, k, requests) ==
    IF k > Len(common_paths) THEN [returned |-> "None", requests |-> requests]
    ELSE LET path == common_paths[k]
             issued == Append(requests, <<"GET", path>>) IN
         IF IsFeedAnswer(site.paths[path])
         THEN [returned |-> SITE_ROOT \o path, requests |-> issued]
         ELSE probe_common_paths(site, k + 1, issued)

NoDiscovery ==
    [op |-> "none",
     site |-> [url |-> "https://site/blog", head_is_feed |-> FALSE,
               page |-> "ok", link |-> "",
               paths |-> [path \in SitePaths |-> "html"]],
     returned |-> "None", raised |-> FALSE, requests |-> << >>]

\* get_feed_url(webpage_url): GET the page, look for a feed link in its
\* head, else try the common paths
get_feed_url(site) ==
    LET webpage_url == WithScheme(site.url)
        got == << <<"GET", webpage_url>> >>
        ran == [NoDiscovery EXCEPT !.op = "get_feed_url", !.site = site,
                                   !.requests = got] IN
    IF site.page = "RequestException" THEN [ran EXCEPT !.raised = TRUE]
    ELSE IF site.link # ""
    THEN [ran EXCEPT !.returned = SITE_ROOT \o site.link]
    ELSE LET probed == probe_common_paths(site, 1, got) IN
         [ran EXCEPT !.returned = probed.returned,
                     !.requests = probed.requests]

get_feed_url_call(site) ==
    /\ discovery = NoDiscovery
    /\ discovery' = get_feed_url(site)
    /\ UNCHANGED <<pubVars, issueVars, pdfVars, webVars, feedPage,
                   aggregation, cacheVars, goVars, moreVars>>

\* The caller takes the result
get_feed_url_return ==
    /\ discovery # NoDiscovery
    /\ discovery' = NoDiscovery
    /\ UNCHANGED <<pubVars, issueVars, pdfVars, webVars, feedPage,
                   aggregation, cacheVars, goVars, moreVars>>

-----------------------------------------------------------------------------
(* RSSService.fetch_recent_articles_for_issue: per-issue aggregation *)

\* The publications an issue may be linked to
LinkedPubIds == {1, 2, 3}
MaxArticlesPerPublication == {1, 2}

\* The feed of one publication: n dated items, the positions of those
\* inside the days_back window, and what fetching it does
PublicationFeeds ==
    UNION {[n : {n}, recent : SUBSET (1..n),
            fetch : {"ok", "RequestException"}] : n \in 0..MaxFeedItems}
NoPublicationFeed == [n |-> 0, recent |-> {}, fetch |-> "ok"]

FeedDocument(pf) == [k \in 1..pf.n |-> [src |-> k, date |-> "rfc2822"]]

AggregationInputs ==
    {in \in [issue_found : BOOLEAN, linked : SUBSET LinkedPubIds,
             feeds : [LinkedPubIds -> PublicationFeeds],
             max_articles_per_publication : MaxArticlesPerPublication] :
        \A p \in LinkedPubIds \ in.linked : in.feeds[p] = NoPublicationFeed}

\* Step 3 for one publication: get_articles with skip = 0 and
\* limit = max_articles_per_publication * 2, the date filter, the trim
publication_articles(pf, max) ==
    LET call == get_articles(FeedDocument(pf), 0, max * 2, pf.fetch)
        inWindow == SelectSeq(call.items, LAMBDA a : a.src \in pf.recent) IN
    [failed |-> call.kind # "return",
     articles |-> PySlice(inWindow, 0, max)]

\* A loop that lets the failure of one feed through
skip_no_publication(in) == {}

\* Step 4: the publications whose feed failed are skipped
skipped_publications(in) ==
    {p \in in.linked :
        publication_articles(in.feeds[p], in.max_articles_per_publication).failed}

RECURSIVE SumOfLengths(_, _)
SumOfLengths(lists, keys) ==
    IF keys = {} THEN 0
    ELSE LET p == CHOOSE q \in keys : TRUE IN
         Len(lists[p]) + SumOfLengths(lists, keys \ {p})

NoAggregation ==
    [op |-> "none",
     in |-> [issue_found |-> TRUE, linked |-> {},
             feeds |-> [p \in LinkedPubIds |-> NoPublicationFeed],
             max_articles_per_publication |-> 1],
     kind |-> "return", publications |-> {},
     articles_by_publication |-> << >>, total_articles |-> 0]

\* fetch_recent_articles_for_issue(issue_id, days_back,
\* max_articles_per_publication)
fetch_recent_articles_for_issue(in) ==
    LET ran == [NoAggregation EXCEPT !.op = "fetch_recent", !.in = in]
        max == in.max_articles_per_publication
        skipped == skipped_publications(in)
        failedNow == {p \in in.linked :
                        publication_articles(in.feeds[p], max).failed}
        kept == in.linked \ skipped
        lists == [p \in kept |-> publication_articles(in.feeds[p], max).articles] IN
    IF ~in.issue_found THEN [ran EXCEPT !.kind = "ValueError"]
    ELSE IF failedNow \ skipped # {}
    THEN [ran EXCEPT !.kind = "raise", !.publications = in.linked]
    ELSE [ran EXCEPT !.publications = in.linked,
                     !.articles_by_publication = lists,
                     !.total_articles = SumOfLengths(lists, kept)]

fetch_recent_call(in) ==
    /\ aggregation = NoAggregation
    /\ aggregation' = fetch_recent_articles_for_issue(in)
    /\ UNCHANGED <<pubVars, issueVars, pdfVars, webVars, feedPage,
                   discovery, cacheVars, goVars, moreVars>>

\* The caller takes the result
fetch_recent_return ==
    /\ aggregation # NoAggregation
    /\ aggregation' = NoAggregation
    /\ UNCHANGED <<pubVars, issueVars, pdfVars, webVars, feedPage,
                   discovery, cacheVars, goVars, moreVars>>

-----------------------------------------------------------------------------
(* MemoryEfficientCache: the disk-backed image cache *)

\* memory_settings, read from the environment: the cache is configured
\* with a maximum of 10 size units and 3 images, cleanup threshold 0.8
MAX_CACHE_SIZE == 10
MAX_CACHED_IMAGES == 2
CACHE_CLEANUP_THRESHOLD_TENTHS == 8

ImageUrls == {"a", "b", "c"}
ImageSizes == {1, 2}        \* len(image_data), at most 20% of the maximum
WriteOutcomes == {"ok", "raise"}
\* The files whose unlink raises during one operation
StuckFiles == {stuck \in SUBSET ImageUrls : Cardinality(stuck) <= 1}

\* cache_info in the order of access_time, oldest first; on_disk tells
\* whether the file at `path` still exists
Tracked(info) == {info[k].url : k \in 1..Len(info)}
Without(info, url) == SelectSeq(info, LAMBDA e : e.url # url)
EntryOf(info, url) == Head(SelectSeq(info, LAMBDA e : e.url = url))

\* `int(self.max_size * memory_settings.CACHE_CLEANUP_THRESHOLD)`
default_target_size == (MAX_CACHE_SIZE * CACHE_CLEANUP_THRESHOLD_TENTHS) \div 10

\* The while loop of _cleanup_cache over items_by_access: an entry whose
\* file is gone is dropped without touching total_size, an entry whose
\* unlink raises stays tracked
RECURSIVE cleanup_loop(_, _, _, _, _)
cleanup_loop(items_by_access, info, total_size, target_size, stuck) ==
    IF (total_size > target_size \/ Len(info) > MAX_CACHED_IMAGES)
       /\ items_by_access # << >>
    THEN LET e == Head(items_by_access) IN
         IF e.on_disk /\ e.url \in stuck
         THEN cleanup_loop(Tail(items_by_access), info, total_size,
                           target_size, stuck)
         ELSE cleanup_loop(Tail(items_by_access), Without(info, e.url),
                           IF e.on_disk THEN total_size - e.size
                           ELSE total_size,
                           target_size, stuck)
    ELSE [cache_info |-> info, total_size |-> total_size]

\* `sorted(self.cache_info.items(), key=access_time)`: cache_info is kept
\* in the order of access_time
RECURSIVE newest_first(_)
newest_first(info) ==
    IF info = << >> THEN << >>
    ELSE Append(newest_first(Tail(info)), Head(info))

oldest_first(info) == info

\* _cleanup_cache(target_size=None)
cleanup_cache(c, stuck) ==
    cleanup_loop(oldest_first(c.cache_info), c.cache_info, c.total_size,
                 default_target_size, stuck)

\* `if self.total_size + new_size > self.max_size or
\*     len(self.cache_info) >= self.max_items`
needs_cleanup(c, new_size) ==
    \/ c.total_size + new_size > MAX_CACHE_SIZE
    \/ Len(c.cache_info) >= MAX_CACHED_IMAGES

NoCacheOp ==
    [op |-> "none", url |-> "", new_size |-> 0, cleaned |-> FALSE,
     raised |-> FALSE,
     before |-> [total_size |-> 0, count |-> 0, tracked |-> FALSE],
     evicted_to |-> [total_size |-> 0, count |-> 0],
     before_info |-> << >>, kept_info |-> << >>, stuck |-> {}]

EmptyCache == [cache_info |-> << >>, total_size |-> 0, last |-> NoCacheOp]

\* cache_image(url, image_data, format_ext)
cache_image_result(c, url, new_size, stuck, write) ==
    LET cleaned == needs_cleanup(c, new_size)
        kept == IF cleaned THEN cleanup_cache(c, stuck)
                ELSE [cache_info |-> c.cache_info, total_size |-> c.total_size]
        last == [op |-> "cache_image", url |-> url, new_size |-> new_size,
                 cleaned |-> cleaned, raised |-> write = "raise",
                 before |-> [total_size |-> c.total_size,
                             count |-> Len(c.cache_info),
                             tracked |-> url \in Tracked(c.cache_info)],
                 evicted_to |-> [total_size |-> kept.total_size,
                                 count |-> Len(kept.cache_info)],
                 before_info |-> c.cache_info,
                 kept_info |-> kept.cache_info,
                 stuck |-> IF cleaned THEN stuck ELSE {}] IN
    IF write = "raise"
    THEN [cache_info |-> kept.cache_info, total_size |-> kept.total_size,
          last |-> last]
    ELSE [cache_info |-> Append(Without(kept.cache_info, url),
                                [url |-> url, size |-> new_size,
                                 on_disk |-> TRUE]),
          total_size |-> kept.total_size + new_size,
          last |-> last]

cache_image(url, new_size, stuck, write) ==
    /\ cache.total_size + new_size <= MaxTotalSize
    /\ cache' = cache_image_result(cache, url, new_size, stuck, write)
    /\ UNCHANGED <<pubVars, issueVars, pdfVars, webVars, rssVars, goVars, moreVars>>

\* get_cached_path(url): refresh the access time, or purge the entry of a
\* file that is gone
get_cached_path(url) ==
    /\ url \in Tracked(cache.cache_info)
    /\ LET e == EntryOf(cache.cache_info, url) IN
       cache' = [cache EXCEPT
                    !.cache_info = IF e.on_disk
                                   THEN Append(Without(@, url), e)
                                   ELSE Without(@, url),
                    !.last = [NoCacheOp EXCEPT !.op = "get_cached_path",
                                               !.url = url]]
    /\ UNCHANGED <<pubVars, issueVars, pdfVars, webVars, rssVars, goVars, moreVars>>

\* A cached file is removed from the disk by something else
file_removed(url) ==
    /\ url \in Tracked(cache.cache_info)
    /\ EntryOf(cache.cache_info, url).on_disk
    /\ cache' = [cache EXCEPT
                    !.cache_info = [k \in 1..Len(@) |->
                        IF @[k].url = url THEN [@[k] EXCEPT !.on_disk = FALSE]
                        ELSE @[k]],
                    !.last = [NoCacheOp EXCEPT !.op = "file_removed",
                                               !.url = url]]
    /\ UNCHANGED <<pubVars, issueVars, pdfVars, webVars, rssVars, goVars, moreVars>>

\* clear_all()
clear_all ==
    /\ cache # EmptyCache
    /\ cache' = EmptyCache
    /\ UNCHANGED <<pubVars, issueVars, pdfVars, webVars, rssVars, goVars, moreVars>>

RECURSIVE SumOfSizes(_)
SumOfSizes(info) ==
    IF info = << >> THEN 0 ELSE Head(info).size + SumOfSizes(Tail(info))

\* get_stats(): _calculate_current_size keeps the entries whose file exists
\* and recomputes total_size from them
get_stats ==
    LET valid_items == SelectSeq(cache.cache_info, LAMBDA e : e.on_disk) IN
    /\ cache.last.op # "get_stats"
    /\ cache' = [cache_info |-> valid_items,
                 total_size |-> SumOfSizes(valid_items),
                 last |-> [NoCacheOp EXCEPT !.op = "get_stats"]]
    /\ UNCHANGED <<pubVars, issueVars, pdfVars, webVars, rssVars, goVars, moreVars>>

-----------------------------------------------------------------------------
(* GoPDFService.generate_pdf_from_issue: its temporary files *)

TempFiles == {"json", "pdf", "html"}

\* The external CLI ran (it was started, whatever its end)
cli_ran(in) ==
    /\ in.total > 0
    /\ in.fail \notin {"paths", "prepare", "write_json"}
    /\ in.cli \in {"ok", "nonzero", "nonzero_stderr", "timeout"}

\* What the CLI leaves next to the output when it ends: the pdf, and the
\* intermediate html.  A CLI that exits with 0 without --keep-html has
\* removed its html; one that fails or is killed at the timeout may not have
GoRuns ==
    {g \in [in : GoInputs, html_left : BOOLEAN,
            unlink_fails : SUBSET {"json", "pdf"}] :
        /\ (~cli_ran(g.in) => ~g.html_left)
        /\ (g.in.cli = "ok" /\ ~g.in.keep_html => ~g.html_left)}

\* The files on disk when the finally block starts
files_created(g) ==
    LET in == g.in IN
    IF in.total = 0 \/ in.fail \in {"paths", "prepare"} THEN {}
    ELSE IF in.fail = "write_json" THEN {"json"}
    ELSE {"json"}
         \cup (IF cli_ran(in) /\ in.pdf_created THEN {"pdf"} ELSE {})
         \cup (IF g.html_left THEN {"html"} ELSE {})

\* json_path, pdf_path and html_path when the finally block starts:
\* html_path is set only `if keep_html`
paths_set(g) ==
    IF g.in.total = 0 \/ g.in.fail = "paths" THEN {}
    ELSE {"json", "pdf"} \cup (IF g.in.keep_html THEN {"html"} ELSE {})

\* `files_to_cleanup = [json_path, pdf_path]`, plus html_path
\* `if not keep_html and html_path`
files_to_cleanup(g) ==
    (paths_set(g) \cap {"json", "pdf"})
    \cup (IF ~g.in.keep_html /\ "html" \in paths_set(g) THEN {"html"} ELSE {})

\* _cleanup_temp_files: unlink what exists, log what cannot be removed
cleanup_temp_files(files, paths, unlink_fails) ==
    files \ (paths \ unlink_fails)

NoGoRun ==
    [op |-> "none", in |-> NoRun.in, html_left |-> FALSE, unlink_fails |-> {},
     created |-> {}, remaining |-> {}, result |-> InitialResult]

go_generate(g) ==
    /\ goRun = NoGoRun
    /\ goRun' = [op |-> "generate", in |-> g.in, html_left |-> g.html_left,
                 unlink_fails |-> g.unlink_fails,
                 created |-> files_created(g),
                 remaining |-> cleanup_temp_files(files_created(g),
                                                  files_to_cleanup(g),
                                                  g.unlink_fails),
                 result |-> GoPDFService_generate_pdf_from_issue(g.in).result]
    /\ UNCHANGED <<pubVars, issueVars, pdfVars, webVars, rssVars, cacheVars,
                   moreVars>>

\* The caller takes the result
go_return ==
    /\ goRun # NoGoRun
    /\ goRun' = NoGoRun
    /\ UNCHANGED <<pubVars, issueVars, pdfVars, webVars, rssVars, cacheVars,
                   moreVars>>

-----------------------------------------------------------------------------
(* DatabaseService.store_article and ArticleService.store_articles *)

ContentUrls == {"u1", "u2"}
ArticlesToStore == [content_url : ContentUrls, title : Titles]

\* What the database does with one call: the select and the write succeed,
\* the select raises, the write raises, or the write returns no data
StoreOutcomes == {"ok", "select_raises", "write_raises", "no_data"}

\* query_articles_table(query="content_url", value, single=True):
\* `result.data[0]` of the rows that match, << >> for None
query_never_matches(table, content_url) == << >>

query_articles_table(table, content_url) ==
    LET data == SelectSeq(table, LAMBDA row : row.content_url = content_url)
    IN IF data # << >> THEN <<data[1]>> ELSE << >>

\* `str(uuid.uuid4())`: an id no row has
fresh_id(table) == Len(table) + 1

\* store_article(..., content_url, update_if_exists) at time `now`:
\* the table it leaves and whether it raised
store_article(table, article, update_if_exists, now, outcome) ==
    LET existing == query_articles_table(table, article.content_url) IN
    IF outcome = "select_raises" THEN [table |-> table, raised |-> TRUE]
    ELSE IF existing # << >> /\ update_if_exists
    THEN IF outcome = "write_raises" THEN [table |-> table, raised |-> TRUE]
         ELSE [table |-> [k \in 1..Len(table) |->
                            IF table[k].id = existing[1].id
                            THEN [table[k] EXCEPT !.title = article.title,
                                                  !.updated_at = now]
                            ELSE table[k]],
               raised |-> outcome = "no_data"]
    ELSE IF outcome = "write_raises" THEN [table |-> table, raised |-> TRUE]
         ELSE [table |-> Append(table,
                            [id |-> fresh_id(table),
                             content_url |-> article.content_url,
                             title |-> article.title,
                             created_at |-> now, updated_at |-> now]),
               raised |-> outcome = "no_data"]

\* `update_if_exists: bool = True`
UPDATE_IF_EXISTS_DEFAULT == TRUE

\* The loop of store_articles from article k: it stops at the first call
\* that raises; `attempted` lists the articles it called store_article for
RECURSIVE store_all(_, _, _, _, _, _)
store_all(table, batch, outcomes, now, k, attempted) ==
    IF k > Len(batch)
    THEN [table |-> table, raised |-> FALSE, attempted |-> attempted]
    ELSE LET r == store_article(table, batch[k], UPDATE_IF_EXISTS_DEFAULT,
                                now + k, outcomes[k])
         IN store_all(r.table, batch, outcomes, now, k + 1,
                      Append(attempted, k))

RECURSIVE store_articles(_, _, _, _, _, _)
store_articles(table, batch, outcomes, now, k, attempted) ==
    IF k > Len(batch)
    THEN [table |-> table, raised |-> FALSE, attempted |-> attempted]
    ELSE LET r == store_article(table, batch[k], UPDATE_IF_EXISTS_DEFAULT,
                                now + k, outcomes[k])
         IN IF r.raised
            THEN [table |-> r.table, raised |-> TRUE,
                  attempted |-> Append(attempted, k)]
            ELSE store_articles(r.table, batch, outcomes, now, k + 1,
                                Append(attempted, k))

Batches == UNION {[1..n -> ArticlesToStore] : n \in 0..MaxBatch}

NoStoreOp ==
    [op |-> "none", clock |-> 0, before |-> << >>, batch |-> << >>,
     outcomes |-> << >>, attempted |-> << >>, raised |-> FALSE]

\* One call of DatabaseService.store_article
store_article_call(article, outcome) ==
    LET r == store_article(articlesTable, article, UPDATE_IF_EXISTS_DEFAULT,
                           storeOp.clock + 1, outcome) IN
    /\ storeOp.clock + 1 <= MaxStores
    /\ articlesTable' = r.table
    /\ storeOp' = [op |-> "store_article", clock |-> storeOp.clock + 1,
                   before |-> articlesTable, batch |-> <<article>>,
                   outcomes |-> <<outcome>>, attempted |-> <<1>>,
                   raised |-> r.raised]
    /\ UNCHANGED <<pubVars, issueVars, pdfVars, webVars, rssVars, cacheVars,
                   goVars, memoryVars, raceVars>>

\* One call of ArticleService.store_articles
store_articles_call(batch, outcomes) ==
    LET r == store_articles(articlesTable, batch, outcomes, storeOp.clock,
                            1, << >>) IN
    /\ storeOp.clock + Len(batch) <= MaxStores
    /\ articlesTable' = r.table
    /\ storeOp' = [op |-> "store_articles",
                   clock |-> storeOp.clock + Len(batch),
                   before |-> articlesTable, batch |-> batch,
                   outcomes |-> outcomes, attempted |-> r.attempted,
                   raised |-> r.raised]
    /\ UNCHANGED <<pubVars, issueVars, pdfVars, webVars, rssVars, cacheVars,
                   goVars, memoryVars, raceVars>>

-----------------------------------------------------------------------------
(* MemoryMonitor, MemoryManager, memory_managed_operation, memory_tracked *)

MAX_MEASUREMENTS == 3   \* `if len(self.measurements) > 100`, scaled down

\* rss_mb as get_memory_usage reports it; 0 is also what it reports when
\* psutil raises
Rss == {0, 2}
BASELINE_RSS == 1

OperationNames == {"generate_pdf_from_issue", "clean_html_content"}
\* `operation: str = "unknown"`
MeasuredOperations == {"unknown"}

\* `self.measurements.pop(0)` while the buffer is over its cap
drop_newest(measurements) ==
    IF Len(measurements) > MAX_MEASUREMENTS
    THEN SubSeq(measurements, 1, Len(measurements) - 1)
    ELSE measurements

drop_oldest(measurements) ==
    IF Len(measurements) > MAX_MEASUREMENTS
    THEN Tail(measurements)
    ELSE measurements

\* MemoryMonitor.record_measurement(operation), all of it under self._lock;
\* `recorded` keeps every measurement ever made, for the claims
record_measurement(m, operation, rss) ==
    LET measurement == [timestamp |-> Len(m.recorded) + 1,
                        operation |-> operation, rss_mb |-> rss] IN
    [baseline_memory |-> m.baseline_memory,
     peak_memory |-> IF measurement.rss_mb > m.peak_memory.rss_mb
                     THEN measurement ELSE m.peak_memory,
     measurements |-> drop_oldest(Append(m.measurements, measurement)),
     recorded |-> Append(m.recorded, measurement)]

NewMonitor ==
    LET baseline == [timestamp |-> 0, operation |-> "baseline",
                     rss_mb |-> BASELINE_RSS] IN
    [baseline_memory |-> baseline, peak_memory |-> baseline,
     measurements |-> << >>, recorded |-> << >>]

\* The events of memory_managed_operation(operation_name, force_gc_after)
\* around a body
memory_managed_operation(operation_name, force_gc_after, body) ==
    <<"record " \o operation_name \o "_start">>
    \o body
    \o (IF force_gc_after THEN <<"gc " \o operation_name \o "_end">>
        ELSE << >>)
    \o <<"record " \o operation_name \o "_end">>

\* Which of the decorated functions are `async def`
IsCoroutineFunction(operation_name) ==
    operation_name = "generate_pdf_from_issue"

\* The events of one call of a function decorated with memory_tracked: the
\* wrapper is a plain function whose with-block returns func(*args);
\* for an `async def` that is the coroutine object, whose body runs when
\* the caller awaits it
memory_tracked(operation_name, force_gc, work) ==
    IF IsCoroutineFunction(operation_name)
    THEN memory_managed_operation(operation_name, force_gc,
                                  <<"coroutine created">>)
         \o <<"work " \o work>>
    ELSE memory_managed_operation(operation_name, force_gc,
                                  <<"work " \o work>>)

WorkOutcomes == {"returns", "raises"}

\* The loop of emergency_cleanup over the callbacks from position k:
\* a callback that raises is logged and the loop goes on
RECURSIVE callbacks_until_failure(_, _, _)
callbacks_until_failure(callbacks, outcomes, k) ==
    IF k > Len(callbacks) THEN << >>
    ELSE IF outcomes[k] = "raises" THEN <<"callback " \o callbacks[k]>>
    ELSE <<"callback " \o callbacks[k]>>
         \o callbacks_until_failure(callbacks, outcomes, k + 1)

RECURSIVE call_cleanup_callbacks(_, _, _)
call_cleanup_callbacks(callbacks, outcomes, k) ==
    IF k > Len(callbacks) THEN << >>
    ELSE <<"callback " \o callbacks[k]>>
         \o call_cleanup_callbacks(callbacks, outcomes, k + 1)

CallbackNames == {"PDFService._emergency_cleanup",
                  "ReportLabPDFService._emergency_cleanup"}

NoManagerOp ==
    [op |-> "none", operation_name |-> "", wrapper |-> "", force_gc |-> TRUE,
     outcomes |-> << >>, events |-> << >>, raised |-> FALSE,
     cleanup_callbacks |-> 0]

NewManager == [cleanup_callbacks |-> << >>, last |-> NoManagerOp]

\* monitor.record_measurement(operation) called directly
record_measurement_call(operation, rss) ==
    /\ Len(monitor.recorded) + 1 <= MaxRecorded
    /\ monitor' = record_measurement(monitor, operation, rss)
    /\ manager' = [manager EXCEPT !.last = NoManagerOp]
    /\ UNCHANGED <<pubVars, issueVars, pdfVars, webVars, rssVars, cacheVars,
                   goVars, articleVars, raceVars>>

\* A unit of work inside `with memory_managed_operation(...)`
memory_managed_operation_call(operation_name, force_gc_after, work, rss_start, rss_end) ==
    /\ Len(monitor.recorded) + 2 <= MaxRecorded
    /\ monitor' = record_measurement(
                      record_measurement(monitor,
                                         operation_name \o "_start", rss_start),
                      operation_name \o "_end", rss_end)
    /\ manager' = [manager EXCEPT !.last =
          [NoManagerOp EXCEPT
              !.op = "run", !.wrapper = "memory_managed_operation",
              !.operation_name = operation_name, !.force_gc = force_gc_after,
              !.outcomes = <<work>>, !.raised = work = "raises",
              !.events = memory_managed_operation(operation_name,
                             force_gc_after, <<"work " \o work>>)]]
    /\ UNCHANGED <<pubVars, issueVars, pdfVars, webVars, rssVars, cacheVars,
                   goVars, articleVars, raceVars>>

\* A call of a function decorated with memory_tracked, awaited by its
\* caller when it is a coroutine function
memory_tracked_call(operation_name, force_gc, work, rss_start, rss_end) ==
    /\ Len(monitor.recorded) + 2 <= MaxRecorded
    /\ monitor' = record_measurement(
                      record_measurement(monitor,
                                         operation_name \o "_start", rss_start),
                      operation_name \o "_end", rss_end)
    /\ manager' = [manager EXCEPT !.last =
          [NoManagerOp EXCEPT
              !.op = "run", !.wrapper = "memory_tracked",
              !.operation_name = operation_name, !.force_gc = force_gc,
              !.outcomes = <<work>>, !.raised = work = "raises",
              !.events = memory_tracked(operation_name, force_gc, work)]]
    /\ UNCHANGED <<pubVars, issueVars, pdfVars, webVars, rssVars, cacheVars,
                   goVars, articleVars, raceVars>>

\* MemoryManager.register_cleanup_callback(callback)
register_cleanup_callback(callback) ==
    /\ Len(manager.cleanup_callbacks) < MaxCallbacks
    /\ manager' = [cleanup_callbacks |-> Append(manager.cleanup_callbacks,
                                                callback),
                   last |-> [NoManagerOp EXCEPT !.op = "register"]]
    /\ UNCHANGED <<monitor, pubVars, issueVars, pdfVars, webVars, rssVars,
                   cacheVars, goVars, articleVars, raceVars>>

\* MemoryManager.emergency_cleanup(), outcomes[k] telling whether the k-th
\* callback returns or raises an Exception
emergency_cleanup(outcomes) ==
    /\ manager' = [manager EXCEPT !.last =
          [NoManagerOp EXCEPT
              !.op = "emergency_cleanup", !.outcomes = outcomes,
              !.events = call_cleanup_callbacks(manager.cleanup_callbacks,
                                                outcomes, 1)
                         \o <<"gc emergency">>,
              !.cleanup_callbacks =
                  Cardinality({k \in 1..Len(outcomes) :
                                 outcomes[k] = "returns"}),
              !.raised = FALSE]]
    /\ UNCHANGED <<monitor, pubVars, issueVars, pdfVars, webVars, rssVars,
                   cacheVars, goVars, articleVars, raceVars>>

-----------------------------------------------------------------------------
(* Two requests in flight: each round trip to the store is one step *)

Requests == {1, 2}      \* the two requests in flight
RACE_ISSUE == 1         \* the issue both POST .../publications name

NoLinkRace ==
    [pc |-> [r \in Requests |-> "idle"],
     request |-> [r \in Requests |-> NoRequest],
     status |-> [r \in Requests |-> 0],
     table |-> {}]

\* Two POST /issues/{id}/publications for the same issue arrive
link_race_arrive(request1, request2) ==
    /\ \A r \in Requests : linkRace.pc[r] = "idle"
    /\ linkRace' = [linkRace EXCEPT
                       !.pc = [r \in Requests |-> "arrived"],
                       !.request = <<request1, request2>>,
                       !.status = [r \in Requests |-> 0]]
    /\ UNCHANGED <<pubVars, issueVars, pdfVars, webVars, rssVars, cacheVars,
                   goVars, articleVars, memoryVars, pubRace>>

\* add_publications_to_issue of request r: the select of the issue, which
\* is stored
link_race_verify(r, sel) ==
    /\ linkRace.pc[r] = "arrived"
    /\ linkRace' = IF sel = "raise"
                   THEN [linkRace EXCEPT
                            !.pc[r] = "responded",
                            !.status[r] = ExceptException(RaisedOther)]
                   ELSE [linkRace EXCEPT !.pc[r] = "verified"]
    /\ UNCHANGED <<pubVars, issueVars, pdfVars, webVars, rssVars, cacheVars,
                   goVars, articleVars, memoryVars, pubRace>>

\* add_publications_to_issue of request r: the delete of the issue's links
link_race_delete(r, del) ==
    /\ linkRace.pc[r] = "verified"
    /\ linkRace' = IF del = "raise"
                   THEN [linkRace EXCEPT
                            !.pc[r] = "responded",
                            !.status[r] = ExceptException(RaisedOther)]
                   ELSE [linkRace EXCEPT
                            !.pc[r] = "deleted",
                            !.table = DeleteLinks(@, RACE_ISSUE)]
    /\ UNCHANGED <<pubVars, issueVars, pdfVars, webVars, rssVars, cacheVars,
                   goVars, articleVars, memoryVars, pubRace>>

\* add_publications_to_issue of request r: the bulk insert and the response
link_race_insert(r, ins) ==
    LET body == insert_links_body(linkRace.table, RACE_ISSUE,
                                  linkRace.request[r], ins) IN
    /\ linkRace.pc[r] = "deleted"
    /\ linkRace' = [linkRace EXCEPT
                       !.pc[r] = "responded",
                       !.status[r] = ExceptException(body[1]),
                       !.table = body[2]]
    /\ UNCHANGED <<pubVars, issueVars, pdfVars, webVars, rssVars, cacheVars,
                   goVars, articleVars, memoryVars, pubRace>>

\* Both responses have reached their clients
link_race_over ==
    /\ \A r \in Requests : linkRace.pc[r] = "responded"
    /\ linkRace' = [NoLinkRace EXCEPT !.table = linkRace.table]
    /\ UNCHANGED <<pubVars, issueVars, pdfVars, webVars, rssVars, cacheVars,
                   goVars, articleVars, memoryVars, pubRace>>

CreatingEndpoints == {"create", "find_or_create"}

NoPubRace ==
    [pc |-> [r \in Requests |-> "idle"],
     endpoint |-> [r \in Requests |-> "create"],
     request |-> [r \in Requests |-> NoPubResp.request],
     found |-> [r \in Requests |-> FALSE],
     status |-> [r \in Requests |-> 0],
     before |-> << >>, table |-> << >>]

\* Two requests that create a publication arrive
pub_race_arrive(endpoint1, request1, endpoint2, request2) ==
    /\ \A r \in Requests : pubRace.pc[r] = "idle"
    /\ Len(pubRace.table) + 2 <= MaxPubs
    /\ pubRace' = [pubRace EXCEPT
                      !.pc = [r \in Requests |-> "arrived"],
                      !.endpoint = <<endpoint1, endpoint2>>,
                      !.request = <<request1, request2>>,
                      !.found = [r \in Requests |-> FALSE],
                      !.status = [r \in Requests |-> 0],
                      !.before = pubRace.table]
    /\ UNCHANGED <<pubVars, issueVars, pdfVars, webVars, rssVars, cacheVars,
                   goVars, articleVars, memoryVars, linkRace>>

\* create_publication / find_or_create_publication of request r: the
\* pre-insert existence check, and the answer when a row is found
pub_race_select(r, sel) ==
    LET existing == Existing(pubRace.table, pubRace.request[r]) IN
    /\ pubRace.pc[r] = "arrived"
    /\ pubRace' =
         IF sel = "raise"
         THEN [pubRace EXCEPT !.pc[r] = "responded",
                              !.status[r] = ExceptException(RaisedOther)]
         ELSE IF existing # << >>
         THEN [pubRace EXCEPT
                  !.pc[r] = "responded", !.found[r] = TRUE,
                  !.status[r] =
                      IF pubRace.endpoint[r] = "create"
                      THEN ExceptException(RaisedHTTP(HTTP_BAD_REQUEST))
                      ELSE ExceptException(Returned)]
         ELSE [pubRace EXCEPT !.pc[r] = "selected"]
    /\ UNCHANGED <<pubVars, issueVars, pdfVars, webVars, rssVars, cacheVars,
                   goVars, articleVars, memoryVars, linkRace>>

\* create_publication / find_or_create_publication of request r: the
\* insert and the response
pub_race_insert(r, ins) ==
    /\ pubRace.pc[r] = "selected"
    /\ pubRace' =
         IF ins = "raise"
         THEN [pubRace EXCEPT !.pc[r] = "responded",
                              !.status[r] = ExceptException(RaisedOther)]
         ELSE IF ins = "empty"
         THEN [pubRace EXCEPT
                  !.pc[r] = "responded",
                  !.status[r] =
                      ExceptException(RaisedHTTP(HTTP_SERVER_ERROR))]
         ELSE [pubRace EXCEPT
                  !.pc[r] = "responded",
                  !.status[r] = ExceptException(Returned),
                  !.table = Append(@, publication_data(@,
                                                       pubRace.request[r]))]
    /\ UNCHANGED <<pubVars, issueVars, pdfVars, webVars, rssVars, cacheVars,
                   goVars, articleVars, memoryVars, linkRace>>

\* Both responses have reached their clients
pub_race_over ==
    /\ \A r \in Requests : pubRace.pc[r] = "responded"
    /\ pubRace' = [NoPubRace EXCEPT !.table = pubRace.table]
    /\ UNCHANGED <<pubVars, issueVars, pdfVars, webVars, rssVars, cacheVars,
                   goVars, articleVars, memoryVars, linkRace>>

-----------------------------------------------------------------------------
(* Specifications *)

\* The state of the services before any request
InitRest ==
    /\ pdfHttp = NoPdfHttp
    /\ articlesHttp = NoArticlesHttp
    /\ feedPage = NoFeedPage
    /\ discovery = NoDiscovery
    /\ aggregation = NoAggregation
    /\ cache = EmptyCache
    /\ goRun = NoGoRun
    /\ articlesTable = << >>
    /\ storeOp = NoStoreOp
    /\ monitor = NewMonitor
    /\ manager = NewManager
    /\ linkRace = NoLinkRace
    /\ pubRace = NoPubRace

Init ==
    /\ publications = << >>
    /\ pubResp = NoPubResp
    /\ issues = {}
    /\ issue_publications = {}
    /\ post = NoPost
    /\ issueResp = NoIssueResp
    /\ linkResp = NoLinkResp
    /\ getResp = NoGetResp
    /\ pdfRun = NoRun
    /\ InitRest

\* The publications router, one request at a time
NextPublications ==
    \/ \E request \in CreatePublicationRequest, sel \in SelectOutcomes,
          ins \in InsertOutcomes : create_publication(request, sel, ins)
    \/ \E request \in CreatePublicationRequest, sel \in SelectOutcomes,
          ins \in InsertOutcomes : find_or_create_publication(request, sel, ins)

Spec == Init /\ [][NextPublications]_vars

\* The issues table: create, update, get
NextIssues ==
    \/ \E request \in CreateIssueRequest, now \in 1..MaxClock,
          ins \in InsertOutcomes : create_issue(request, now, ins)
    \/ \E issue_id \in RequestIssueIds, request \in UpdateIssueRequest,
          now \in 1..MaxClock, upd \in SelectOutcomes :
            update_issue(issue_id, request, now, upd)
    \/ \E issue_id \in RequestIssueIds, sel \in SelectOutcomes :
            get_issue(issue_id, sel)

SpecIssues == Init /\ [][NextIssues]_vars

\* The links of two stored issues: one replace-all request at a time, its
\* database round trips interleaved with readers
StoredIssues ==
    {[id |-> i, title |-> "t1", format |-> "newspaper", updated_at |-> 1] :
        i \in IssueIds}

InitLinks ==
    /\ publications = << >>
    /\ pubResp = NoPubResp
    /\ issues = StoredIssues
    /\ issue_publications = {}
    /\ post = NoPost
    /\ issueResp = NoIssueResp
    /\ linkResp = NoLinkResp
    /\ getResp = NoGetResp
    /\ pdfRun = NoRun
    /\ InitRest

NextLinks ==
    \/ \E issue_id \in RequestIssueIds, request \in AddPublicationsRequest,
          sel \in SelectOutcomes : post_verify(issue_id, request, sel)
    \/ \E del \in SelectOutcomes : post_delete(del)
    \/ \E ins \in InsertOutcomes : post_insert(ins)
    \/ post_return
    \/ \E issue_id \in RequestIssueIds, sel \in SelectOutcomes :
            get_issue_publications(issue_id, sel)

SpecLinks == InitLinks /\ [][NextLinks]_vars

\* The PDF engines, one run at a time
NextPdf ==
    \/ \E in \in SharedInputs : PDFServiceRun(in)
    \/ \E in \in ReportLabInputs : ReportLabRun(in)
    \/ \E in \in GoInputs : GoPDFServiceRun(in)
    \/ PdfReturn

SpecPdf == Init /\ [][NextPdf]_vars

\* The two routers that answer for the aggregation and the engine
NextWeb ==
    \/ WebIdle /\ \E in \in SharedInputs, str_e \in StrOfHTTPException,
                     layout_type \in RequestLayoutTypes :
          generate_pdf_for_issue(in, str_e, layout_type)
    \/ WebIdle /\ \E uuid_ok \in BOOLEAN, request \in FetchArticlesRequest,
          fetch \in FetchOutcomes :
            fetch_articles_for_issue(uuid_ok, request, fetch)
    \/ web_response_read

SpecWeb == Init /\ [][NextWeb]_vars

\* Feed parsing and the paginated listing; the feed document stays the same
\* while one client pages through it
NextFeed ==
    \/ feedPage = NoFeedPage
          /\ \E feed \in Feeds_, skip \in Skips, limit \in Limits,
                fetch \in FeedFetches :
                  get_articles_call(feed, skip, limit, fetch)
    \/ feedPage = NoFeedPage
          /\ \E feed \in Feeds_, skip \in Skips, limit \in Limits,
                fetch \in FeedFetches :
                  get_feed_articles(feed, skip, limit, fetch)
    \/ feedPage = NoFeedPage
          /\ \E feed \in Feeds_, limit \in Limits : start_paging(feed, limit)
    \/ \E fetch \in FeedFetches : next_page(fetch)
    \/ end_paging

SpecFeed == Init /\ [][NextFeed]_vars

\* Feed discovery, one call at a time
NextDiscovery ==
    \/ discovery = NoDiscovery /\ \E site \in Sites : get_feed_url_call(site)
    \/ get_feed_url_return

SpecDiscovery == Init /\ [][NextDiscovery]_vars

\* Per-issue aggregation, one call at a time
NextAggregation ==
    \/ aggregation = NoAggregation
          /\ \E in \in AggregationInputs : fetch_recent_call(in)
    \/ fetch_recent_return

SpecAggregation == Init /\ [][NextAggregation]_vars

\* The image cache of one PDF service
NextCache ==
    \/ \E url \in ImageUrls, new_size \in ImageSizes, stuck \in StuckFiles,
          write \in WriteOutcomes : cache_image(url, new_size, stuck, write)
    \/ \E url \in ImageUrls : get_cached_path(url)
    \/ \E url \in ImageUrls : file_removed(url)
    \/ clear_all
    \/ get_stats

SpecCache == Init /\ [][NextCache]_vars

\* The external-CLI engine and its files, one run at a time
NextGo ==
    \/ goRun = NoGoRun /\ \E g \in GoRuns : go_generate(g)
    \/ go_return

SpecGo == Init /\ [][NextGo]_vars

\* The articles table under store_article and store_articles calls
NextArticles ==
    \/ \E article \in ArticlesToStore, outcome \in StoreOutcomes :
          store_article_call(article, outcome)
    \/ \E batch \in Batches :
          \E outcomes \in [1..Len(batch) -> StoreOutcomes] :
             store_articles_call(batch, outcomes)

SpecArticles == Init /\ [][NextArticles]_vars

\* The process-wide memory manager and its monitor
NextMemory ==
    \/ \E operation \in MeasuredOperations, rss \in Rss :
          record_measurement_call(operation, rss)
    \/ \E operation_name \in OperationNames, force_gc_after \in BOOLEAN,
          work \in WorkOutcomes, rss_start \in Rss, rss_end \in Rss :
            memory_managed_operation_call(operation_name, force_gc_after,
                                          work, rss_start, rss_end)
    \/ \E operation_name \in OperationNames, force_gc \in BOOLEAN,
          work \in WorkOutcomes, rss_start \in Rss, rss_end \in Rss :
            memory_tracked_call(operation_name, force_gc, work,
                                rss_start, rss_end)
    \/ \E callback \in CallbackNames : register_cleanup_callback(callback)
    \/ \E outcomes \in [1..Len(manager.cleanup_callbacks) -> WorkOutcomes] :
          emergency_cleanup(outcomes)

SpecMemory == Init /\ [][NextMemory]_vars

\* Two POST /issues/{id}/publications for one issue, interleaved at the
\* round trips to the store
NextLinkRace ==
    \/ (\A r \in Requests : linkRace.pc[r] = "idle")
          /\ \E request1 \in AddPublicationsRequest,
                request2 \in AddPublicationsRequest :
                  link_race_arrive(request1, request2)
    \/ \E r \in Requests, sel \in SelectOutcomes : link_race_verify(r, sel)
    \/ \E r \in Requests, del \in SelectOutcomes : link_race_delete(r, del)
    \/ \E r \in Requests, ins \in InsertOutcomes : link_race_insert(r, ins)
    \/ link_race_over

SpecLinkRace == Init /\ [][NextLinkRace]_vars

\* Two requests creating a publication, interleaved at the round trips to
\* the store
NextPubRace ==
    \/ (\A r \in Requests : pubRace.pc[r] = "idle")
          /\ \E endpoint1 \in CreatingEndpoints,
                endpoint2 \in CreatingEndpoints,
                request1 \in CreatePublicationRequest,
                request2 \in CreatePublicationRequest :
                  pub_race_arrive(endpoint1, request1, endpoint2, request2)
    \/ \E r \in Requests, sel \in SelectOutcomes : pub_race_select(r, sel)
    \/ \E r \in Requests, ins \in InsertOutcomes : pub_race_insert(r, ins)
    \/ pub_race_over

SpecPubRace == Init /\ [][NextPubRace]_vars

-----------------------------------------------------------------------------
(* Publications router: claims, checked under Spec *)

\* The last request named a url that was already stored
UrlWasStored == SelectByUrl(pubResp.before, pubResp.request.url) # << >>

\* C3 (as claimed): POST /publications with a url that is already stored is
\* answered with status 400 and leaves the publications table unchanged.
C3_DuplicateUrlRejectedWith400 ==
    (pubResp.op = "create" /\ pubResp.sel = "ok" /\ UrlWasStored)
        => (pubResp.status = HTTP_BAD_REQUEST /\ publications = pubResp.before)

\* C4 (as claimed): after any sequence of creating requests the table holds
\* at most one row per rss_feed_url.
C4_OneRowPerFeedUrl ==
    \A j, k \in 1..Len(publications) :
        publications[j].rss_feed_url = publications[k].rss_feed_url => j = k

\* C4 (amended): after any sequence of creating requests, handled one at a
\* time, the table holds at most one row per url, the field the pre-insert
\* existence check compares.
C4_OneRowPerUrl ==
    \A j, k \in 1..Len(publications) :
        publications[j].url = publications[k].url => j = k

\* A request for a stored url was made and two rows are stored.
C4_Witness ==
    /\ Len(publications) = 2
    /\ pubResp.op \in {"create", "find_or_create"}
    /\ UrlWasStored

\* C5: find-or-create is idempotent over sequential calls: a call for a url
\* not yet stored appends exactly one row and returns it with created=true;
\* a call for a stored url returns the one stored row of that url with
\* created=false and leaves the table unchanged; the store permitting, the
\* call succeeds.
C5_FindOrCreateIdempotent ==
    pubResp.op = "find_or_create" =>
        LET prior == SelectByUrl(pubResp.before, pubResp.request.url) IN
        /\ (pubResp.sel = "ok" /\ (prior # << >> \/ pubResp.ins = "ok"))
              => pubResp.status = HTTP_OK
        /\ (pubResp.status = HTTP_OK /\ prior = << >>) =>
              /\ pubResp.created
              /\ publications = Append(pubResp.before, pubResp.publication)
              /\ pubResp.publication.url = pubResp.request.url
              /\ pubResp.publication.title = pubResp.request.title
        /\ (pubResp.status = HTTP_OK /\ prior # << >>) =>
              /\ ~pubResp.created
              /\ publications = pubResp.before
              /\ prior = <<pubResp.publication>>

\* A later call found the row of an earlier one, whose title differs from
\* the title the later call carries.
C5_Witness ==
    /\ pubResp.op = "find_or_create"
    /\ pubResp.status = HTTP_OK
    /\ ~pubResp.created
    /\ pubResp.publication.url = pubResp.request.url
    /\ pubResp.publication.title # pubResp.request.title

-----------------------------------------------------------------------------
(* Issues router: claims, checked under SpecIssues and SpecLinks *)

\* C10 (as claimed): GET and PUT /issues/{id} for an id that matches no
\* stored issue answer with status 404, and the PUT changes no row.
C10_MissingIssueIs404 ==
    (/\ issueResp.op \in {"get", "update"}
     /\ issueResp.db = "ok"
     /\ IssuesById(issueResp.before, issueResp.issue_id) = {})
        => (issueResp.status = HTTP_NOT_FOUND /\ issues = issueResp.before)

LegacySet(request) ==
    {PublicationSettings(id, FALSE) : id \in Range(request.publication_ids)}
StructuredSet(request) == Range(request.publications)

PostSucceeded == linkResp.op = "add_publications" /\ linkResp.status = HTTP_OK

\* C6: after a successful POST /issues/{id}/publications the stored links
\* of the issue are exactly a link set the request gives (the structured
\* one, or the legacy one with remove_images=false; the one given when only
\* one is), none of the previous links remains, and the links of every
\* other issue are as they were when the request began.
C6_ReplaceAll ==
    PostSucceeded =>
        LET stored == SettingsOf(issue_publications, linkResp.issue_id) IN
        /\ stored \in {StructuredSet(linkResp.request), LegacySet(linkResp.request)}
        /\ ~linkResp.request.has_publications => stored = LegacySet(linkResp.request)
        /\ linkResp.request.publication_ids = << >>
              => stored = StructuredSet(linkResp.request)
        /\ Cardinality(LinksOf(issue_publications, linkResp.issue_id))
              = linkResp.publication_count
        /\ \A i \in RequestIssueIds \ {linkResp.issue_id} :
              LinksOf(issue_publications, i) = LinksOf(linkResp.before, i)

\* A successful replace of a non-empty link set by a different non-empty
\* one, while the other issue has links.
C6_Witness ==
    /\ PostSucceeded
    /\ SettingsOf(linkResp.before, linkResp.issue_id) # {}
    /\ SettingsOf(issue_publications, linkResp.issue_id) # {}
    /\ SettingsOf(linkResp.before, linkResp.issue_id)
          \cap SettingsOf(issue_publications, linkResp.issue_id) = {}
    /\ \E i \in IssueIds \ {linkResp.issue_id} : LinksOf(issue_publications, i) # {}

\* The structured form of a list of ids: every id with remove_images=false
StructuredForm(ids) ==
    [publication_ids |-> << >>, has_publications |-> TRUE,
     publications |-> [k \in 1..Len(ids) |-> PublicationSettings(ids[k], FALSE)]]

\* C7: a successful POST of a legacy flat list of ids leaves the table that
\* the POST of its structured form (every id with remove_images=false) to
\* the same issue from the same state produces, and every stored link of
\* the issue has remove_images=false.
C7_LegacyEqualsStructured ==
    (PostSucceeded /\ ~linkResp.request.has_publications) =>
        LET twin == insert_links_body(
                        DeleteLinks(linkResp.before, linkResp.issue_id),
                        linkResp.issue_id,
                        StructuredForm(linkResp.request.publication_ids), "ok") IN
        /\ ExceptException(twin[1]) = HTTP_OK
        /\ twin[2] = issue_publications
        /\ twin[3] = linkResp.publication_count
        /\ \A row \in LinksOf(issue_publications, linkResp.issue_id) :
              ~row.remove_images

\* A legacy list of two different ids was stored.
C7_Witness ==
    /\ PostSucceeded
    /\ ~linkResp.request.has_publications
    /\ Cardinality(Range(linkResp.request.publication_ids)) = 2
    /\ Cardinality(LinksOf(issue_publications, linkResp.issue_id)) = 2

\* C8 (as claimed): when publications is not null the stored link set is
\* that of publications, for every value of publication_ids.
C8_StructuredTakesPriority ==
    (PostSucceeded /\ PublicationsNotNone(linkResp.request))
        => SettingsOf(issue_publications, linkResp.issue_id)
              = StructuredSet(linkResp.request)

\* C9: a GET /issues/{id}/publications served between the delete and the
\* bulk insert of a POST on the same issue returns an empty publication
\* list; such a state is reached for an issue that had links.
C9_ReaderSeesEmpty ==
    (getResp.op = "get_publications" /\ getResp.during
        /\ getResp.status = HTTP_OK)
        => (getResp.publications = {} /\ getResp.count = 0)

\* The reader ran in that window on an issue that had links.
C9_Witness ==
    /\ getResp.op = "get_publications"
    /\ getResp.during
    /\ getResp.status = HTTP_OK
    /\ post.pc = "deleted"
    /\ post.issue_id = getResp.issue_id
    /\ SettingsOf(getResp.before, getResp.issue_id) # {}
    /\ getResp.publications = {}

-----------------------------------------------------------------------------
(* PDF engines: claims, checked under SpecPdf *)

EngineRan == pdfRun.engine # "none"

Tolerated == {"content", "advanced"}

C2_NoArticles ==
    (/\ pdfRun.engine = "PDFService"
     /\ pdfRun.in.agg = "data"
     /\ pdfRun.in.total = 0)
        => /\ pdfRun.result = Failing(NO_ARTICLES_ERROR)
           /\ pdfRun.effects = NoEffects

\* PDFService ran on an aggregation of zero articles.
C2_Witness ==
    /\ pdfRun.engine = "PDFService"
    /\ pdfRun.in.agg = "data"
    /\ pdfRun.in.total = 0
    /\ pdfRun.in.fail = "upload"
    /\ pdfRun.result.error = NO_ARTICLES_ERROR

-----------------------------------------------------------------------------
(* PDF and articles routers: claims, checked under SpecWeb *)

\* C11 (as claimed): POST /pdf/generate/{issue_id} answers 400 whenever the
\* engine's result has success=false, and the detail is the engine's error
C11_EngineFailureIs400 ==
    (pdfHttp.op = "generate" /\ ~pdfHttp.result.success) =>
        /\ pdfHttp.status = HTTP_BAD_REQUEST
        /\ pdfHttp.detail = pdfHttp.result.error

\* C12 (as claimed): POST /articles/fetch/{issue_id} with a negative
\* days_back or a non-positive max_articles_per_publication is answered 422
\* and fetch_recent_articles_for_issue is not invoked
C12_InvalidParametersAre422 ==
    (/\ articlesHttp.op = "fetch"
     /\ \/ articlesHttp.request.days_back < 0
        \/ articlesHttp.request.max_articles_per_publication <= 0) =>
        /\ articlesHttp.status = HTTP_UNPROCESSABLE
        /\ ~articlesHttp.invoked

\* C23 (as claimed): POST /pdf/generate/{issue_id} renders with the
\* layout_type given in the request, newspaper when it is omitted: a
\* request with layout_type=essay has the engine invoked with essay
C23_RendersRequestedLayout ==
    (pdfHttp.op = "generate" /\ pdfHttp.rendered) =>
        pdfHttp.render_layout = query_layout_type(pdfHttp.layout_type)

-----------------------------------------------------------------------------
(* RSS service and router: claims, checked under SpecFeed *)

Min(a, b) == IF a < b THEN a ELSE b
Max(a, b) == IF a > b THEN a ELSE b

\* The feed's items were all parsed: the document was fetched, is XML, and
\* every item yields an Article
AllParsed(call) ==
    /\ call.fetch = "ok"
    /\ \A k \in 1..Len(call.feed) : ~date_published_raises(call.feed[k])

\* C13: for a feed with N parsed items, skip >= 0 and limit >= 1,
\* get_articles returns the items at positions skip .. skip+limit-1 in feed
\* order, min(limit, max(0, N - skip)) of them, with total = N; a skip at or
\* beyond N returns the empty list with total = N and no error
C13_Pagination ==
    LET call == feedPage.call
        N == Len(call.feed) IN
    (/\ call.kind # "none" /\ AllParsed(call)
     /\ call.skip >= 0 /\ call.limit >= 1) =>
        /\ call.kind = "return"
        /\ call.total = N
        /\ Len(call.items) = Min(call.limit, Max(0, N - call.skip))
        /\ \A k \in 1..Len(call.items) : call.items[k].src = call.skip + k
        /\ call.skip >= N => call.items = << >>

C13_Witness ==
    LET call == feedPage.call IN
    /\ call.kind = "return" /\ AllParsed(call)
    /\ call.skip = 1 /\ call.limit = 1 /\ Len(call.feed) = 3
    /\ Len(call.items) = 1

\* C14: has_more = (skip + number of items returned < total), true exactly
\* when the feed holds an item beyond the returned page; a client that
\* requests successive pages while has_more is true has received every
\* feed item exactly once when has_more turns false
C14_HasMoreAndPaging ==
    LET resp == feedPage.resp IN
    /\ resp.status = HTTP_OK =>
          /\ resp.has_more = (resp.skip + Len(resp.items) < resp.total)
          /\ resp.has_more =
                (\E k \in 1..Len(feedPage.feed) :
                    k > resp.skip + Len(resp.items))
    /\ feedPage.paging = "done" =>
          /\ Len(feedPage.seen) = Len(feedPage.feed)
          /\ \A k \in 1..Len(feedPage.feed) : feedPage.seen[k].src = k

C14_Witness ==
    /\ feedPage.paging = "done"
    /\ Len(feedPage.feed) = 3 /\ feedPage.limit = 2 /\ feedPage.skip = 2

-----------------------------------------------------------------------------
(* Feed discovery: claims, checked under SpecDiscovery *)

\* C15 (as claimed): when the initial existence check of the url reports a
\* feed content-type, get_feed_url returns the url unchanged and issues no
\* GET of the page body
C15_DirectFeedNoGet ==
    (discovery.op = "get_feed_url" /\ discovery.site.head_is_feed) =>
        /\ ~discovery.raised
        /\ discovery.returned = discovery.site.url
        /\ \A k \in 1..Len(discovery.requests) :
              discovery.requests[k][1] # "GET"

\* The eight candidate paths, in the order claimed
CandidatePaths == <<"/feed", "/rss", "/rss.xml", "/atom.xml",
                    "/feeds/posts/default", "/feeds", "/feed.xml",
                    "/index.xml">>

\* The candidates before and at the first feed-like one (all eight when
\* none is)
ProbedCandidates(site) ==
    LET feedLike == {k \in 1..Len(CandidatePaths) :
                        IsFeedAnswer(site.paths[CandidatePaths[k]])}
        last == IF feedLike = {} THEN Len(CandidatePaths)
                ELSE CHOOSE k \in feedLike : \A j \in feedLike : k <= j IN
    SubSeq(CandidatePaths, 1, last)

\* C16 (as claimed): when the page has no feed link tag, get_feed_url
\* probes the eight candidate paths in order and returns the first whose
\* content-type is feed-like; when none is, it returns absent, not raising
C16_EightCandidatesInOrder ==
    LET site == discovery.site
        probed == ProbedCandidates(site)
        probes == SelectSeq(discovery.requests,
                            LAMBDA r : r[2] \in SitePaths) IN
    (/\ discovery.op = "get_feed_url" /\ ~site.head_is_feed
     /\ site.page = "ok" /\ site.link = "") =>
        /\ ~discovery.raised
        /\ probes = [k \in 1..Len(probed) |-> <<"GET", probed[k]>>]
        /\ discovery.returned =
              IF IsFeedAnswer(site.paths[probed[Len(probed)]])
              THEN SITE_ROOT \o probed[Len(probed)] ELSE "None"

-----------------------------------------------------------------------------
(* Per-issue aggregation: claims, checked under SpecAggregation *)

FetchSucceeded(in, p) == in.feeds[p].fetch = "ok"

\* The items of publication p inside the window among the first
\* 2 * max_articles_per_publication of its feed
RecentFetched(in, p) ==
    {k \in in.feeds[p].recent : k <= 2 * in.max_articles_per_publication}

\* C17: when the feed fetch of some linked publications fails, the result
\* still holds the articles of every publication whose fetch succeeded,
\* each list trimmed to at most max_articles_per_publication, and
\* total_articles is the sum of the lengths of the returned lists
C17_PartialFailureTolerated ==
    LET in == aggregation.in
        lists == aggregation.articles_by_publication
        max == in.max_articles_per_publication IN
    (aggregation.op = "fetch_recent" /\ in.issue_found) =>
        /\ aggregation.kind = "return"
        /\ \A p \in in.linked : FetchSucceeded(in, p) =>
              /\ p \in DOMAIN lists
              /\ Len(lists[p]) = Min(max, Cardinality(RecentFetched(in, p)))
              /\ \A k \in 1..Len(lists[p]) :
                    /\ lists[p][k].src \in RecentFetched(in, p)
                    /\ \A j \in 1..(k - 1) : lists[p][j].src < lists[p][k].src
        /\ \A p \in DOMAIN lists : p \in in.linked /\ FetchSucceeded(in, p)
        /\ aggregation.total_articles = SumOfLengths(lists, DOMAIN lists)

C17_Witness ==
    LET in == aggregation.in IN
    /\ aggregation.op = "fetch_recent" /\ aggregation.kind = "return"
    /\ in.linked = LinkedPubIds
    /\ ~FetchSucceeded(in, 2) /\ in.feeds[2].n > 0
    /\ FetchSucceeded(in, 1) /\ FetchSucceeded(in, 3)
    /\ Len(aggregation.articles_by_publication[1]) = 1
    /\ Len(aggregation.articles_by_publication[3]) = 2
    /\ aggregation.total_articles = 3

-----------------------------------------------------------------------------
(* Image cache: claims, checked under SpecCache *)

\* The call would push the total size or the item count above its maximum
WouldExceed(last) ==
    \/ last.before.total_size + last.new_size > MAX_CACHE_SIZE
    \/ ~last.before.tracked /\ last.before.count + 1 > MAX_CACHED_IMAGES

\* C18 (as claimed): a cache_image call that would push the total size or
\* the item count above its maximum triggers eviction, and when the
\* eviction finishes the tracked total size is at or below 80% of the
\* maximum and the tracked item count at or below the maximum
C18_EvictionReachesTarget ==
    (cache.last.op = "cache_image" /\ WouldExceed(cache.last)) =>
        /\ cache.last.cleaned
        /\ cache.last.evicted_to.total_size <= default_target_size
        /\ cache.last.evicted_to.count <= MAX_CACHED_IMAGES

\* C19 (as claimed): after every cache_image call returns, the cache tracks
\* at most MAX_CACHED_IMAGES entries and its total size is at most the
\* maximum cache size
C19_CacheBounded ==
    (cache.last.op = "cache_image" /\ ~cache.last.raised) =>
        /\ Len(cache.cache_info) <= MAX_CACHED_IMAGES
        /\ cache.total_size <= MAX_CACHE_SIZE

-----------------------------------------------------------------------------
(* External-CLI engine: claims, checked under SpecGo *)

\* C20 (as claimed): when GoPDFService.generate_pdf_from_issue returns,
\* whatever the outcome, the temporary JSON and PDF files no longer exist,
\* and the intermediate HTML file remains only if keep_html was requested
C20_TempFilesRemoved ==
    goRun.op = "generate" =>
        /\ "json" \notin goRun.remaining
        /\ "pdf" \notin goRun.remaining
        /\ "html" \in goRun.remaining => goRun.in.keep_html

\* The same, for the runs in which no unlink fails
C20_HtmlRemovedUnlessKept ==
    (goRun.op = "generate" /\ goRun.unlink_fails = {}) =>
        ("html" \in goRun.remaining => goRun.in.keep_html)

-----------------------------------------------------------------------------
(* Articles table: claims, checked under SpecArticles *)

AtMostOneRowPerUrl(table) ==
    \A i, j \in 1..Len(table) :
        table[i].content_url = table[j].content_url => i = j

RowIds(table) == {table[k].id : k \in 1..Len(table)}
StoredUrls(table) == {table[k].content_url : k \in 1..Len(table)}

\* C21: after any sequence of store_article calls with update_if_exists at
\* its default the articles table holds at most one row per content_url; a
\* call whose content_url is already stored updates that row in place and
\* keeps its id and created_at, a call with a new content_url inserts one
\* row with a fresh id
C21_OneRowPerContentUrl ==
    /\ AtMostOneRowPerUrl(articlesTable)
    /\ (storeOp.op = "store_article" /\ ~storeOp.raised) =>
         LET article == storeOp.batch[1]
             before == storeOp.before IN
         IF article.content_url \in StoredUrls(before)
         THEN /\ Len(articlesTable) = Len(before)
              /\ \A k \in 1..Len(before) :
                    /\ articlesTable[k].id = before[k].id
                    /\ articlesTable[k].created_at = before[k].created_at
                    /\ articlesTable[k].content_url = before[k].content_url
                    /\ IF before[k].content_url = article.content_url
                       THEN /\ articlesTable[k].title = article.title
                            /\ articlesTable[k].updated_at = storeOp.clock
                       ELSE articlesTable[k] = before[k]
         ELSE /\ Len(articlesTable) = Len(before) + 1
              /\ SubSeq(articlesTable, 1, Len(before)) = before
              /\ articlesTable[Len(articlesTable)].id \notin RowIds(before)
              /\ articlesTable[Len(articlesTable)].content_url
                    = article.content_url

\* A stored article was stored again with another title, next to a row of
\* another url
C21_Witness ==
    /\ storeOp.op = "store_article"
    /\ ~storeOp.raised
    /\ Len(storeOp.before) = 2
    /\ storeOp.batch[1].content_url = storeOp.before[1].content_url
    /\ storeOp.batch[1].title # storeOp.before[1].title
    /\ articlesTable[1].updated_at > articlesTable[1].created_at

\* The first article of the batch whose call fails, 0 when none does
RECURSIVE FirstFailure(_, _)
FirstFailure(outcomes, k) ==
    IF k > Len(outcomes) THEN 0
    ELSE IF outcomes[k] # "ok" THEN k
    ELSE FirstFailure(outcomes, k + 1)

\* The title the table holds for a url: that of the last of the first n
\* articles of the batch with this url
LastTitle(batch, n, url) ==
    LET ks == {k \in 1..n : batch[k].content_url = url}
        last == CHOOSE k \in ks : \A m \in ks : m <= k
    IN batch[last].title

\* C22: store_articles stores the articles in list order; if storing the
\* k-th fails the exception propagates, no article after the k-th is
\* attempted and the articles before the k-th remain stored
C22_BatchAbortsAtFirstFailure ==
    storeOp.op = "store_articles" =>
        LET k == FirstFailure(storeOp.outcomes, 1)
            n == IF k = 0 THEN Len(storeOp.batch) ELSE k - 1 IN
        /\ storeOp.raised <=> k # 0
        /\ storeOp.attempted =
              [i \in 1..(IF k = 0 THEN Len(storeOp.batch) ELSE k) |-> i]
        /\ \A i \in 1..n :
              \E r \in 1..Len(articlesTable) :
                 /\ articlesTable[r].content_url = storeOp.batch[i].content_url
                 /\ articlesTable[r].title
                      \in {LastTitle(storeOp.batch, m,
                                     storeOp.batch[i].content_url) :
                              m \in {n, Len(storeOp.attempted)}}
        /\ StoredUrls(articlesTable) \subseteq
              StoredUrls(storeOp.before)
                \cup {storeOp.batch[i].content_url :
                        i \in 1..Len(storeOp.attempted)}
        /\ \A r \in 1..Len(articlesTable) :
              articlesTable[r].updated_at
                <= storeOp.clock - Len(storeOp.batch) + Len(storeOp.attempted)

\* The second article of a batch of two failed after the first was stored
C22_Witness ==
    /\ storeOp.op = "store_articles"
    /\ Len(storeOp.batch) = 2
    /\ storeOp.outcomes = <<"ok", "write_raises">>
    /\ storeOp.raised
    /\ storeOp.before = << >>
    /\ Len(articlesTable) = 1
    /\ articlesTable[1].content_url = storeOp.batch[1].content_url

-----------------------------------------------------------------------------
(* Memory manager: claims, checked under SpecMemory *)

\* The position of an event in the events of the last run, 0 when absent
PositionOf(events, event) ==
    IF \E k \in 1..Len(events) : events[k] = event
    THEN CHOOSE k \in 1..Len(events) : events[k] = event
    ELSE 0

\* The four events of a run are there and in the order start, work, gc, end
InOrder(last) ==
    LET start == PositionOf(last.events,
                            "record " \o last.operation_name \o "_start")
        work == PositionOf(last.events, "work " \o last.outcomes[1])
        gc == PositionOf(last.events,
                         "gc " \o last.operation_name \o "_end")
        end == PositionOf(last.events,
                          "record " \o last.operation_name \o "_end")
    IN /\ 0 < start /\ start < work
       /\ work < gc
       /\ gc < end

\* C24 (as claimed): for every unit of work wrapped by memory_tracked or
\* memory_managed_operation, the wrapped generate_pdf_from_issue included,
\* the start measurement is recorded, the work runs to completion or
\* fails, garbage collection tagged "<operation>_end" is forced, and only
\* then the end measurement is recorded
C24_StartWorkGcEnd ==
    (manager.last.op = "run" /\ manager.last.force_gc) =>
        InOrder(manager.last)

\* C25: emergency_cleanup invokes every registered callback exactly once,
\* in registration order, even when earlier callbacks raise; it then
\* forces garbage collection tagged "emergency" and returns a report
\* without raising
C25_EveryCallbackOnce ==
    manager.last.op = "emergency_cleanup" =>
        LET n == Len(manager.cleanup_callbacks) IN
        /\ Len(manager.last.events) = n + 1
        /\ \A k \in 1..n :
              manager.last.events[k]
                = "callback " \o manager.cleanup_callbacks[k]
        /\ manager.last.events[n + 1] = "gc emergency"
        /\ ~manager.last.raised

\* Two callbacks are registered and the first one raised
C25_Witness ==
    /\ manager.last.op = "emergency_cleanup"
    /\ Len(manager.cleanup_callbacks) = 2
    /\ manager.cleanup_callbacks[1] # manager.cleanup_callbacks[2]
    /\ manager.last.outcomes = <<"raises", "returns">>
    /\ manager.last.cleanup_callbacks = 1

\* C26: after any sequence of record_measurement calls the measurements
\* buffer holds at most 100 entries, namely the most recent ones in call
\* order, and the rss of peak_memory is at least the rss of the baseline
\* and of every measurement recorded so far
C26_RingBufferAndPeak ==
    LET n == Len(monitor.recorded)
        kept == Len(monitor.measurements) IN
    /\ kept <= MAX_MEASUREMENTS
    /\ kept = IF n < MAX_MEASUREMENTS THEN n ELSE MAX_MEASUREMENTS
    /\ monitor.measurements = SubSeq(monitor.recorded, n - kept + 1, n)
    /\ monitor.peak_memory.rss_mb >= monitor.baseline_memory.rss_mb
    /\ \A k \in 1..n :
          monitor.peak_memory.rss_mb >= monitor.recorded[k].rss_mb

\* More measurements were recorded than the buffer holds, and the highest
\* one is no longer in the buffer
C26_Witness ==
    /\ Len(monitor.recorded) > MAX_MEASUREMENTS
    /\ monitor.recorded[1].rss_mb = 2
    /\ \A k \in 1..Len(monitor.measurements) :
          monitor.measurements[k].rss_mb < 2
    /\ monitor.peak_memory.timestamp = 1

\* The entries the cleanup of the last cache_image call evicted, and the
\* position of an entry in the order of access_time before the cleanup
Evicted(last) == Tracked(last.before_info) \ Tracked(last.kept_info)
AccessRank(last, url) ==
    CHOOSE k \in 1..Len(last.before_info) : last.before_info[k].url = url

C28_TotalSizeIsSumOfTracked ==
    cache.total_size = SumOfSizes(cache.cache_info)

-----------------------------------------------------------------------------
(* Requests in flight together: claims, checked under SpecLinkRace and
   SpecPubRace *)

\* The link set a request asks for
RequestedLinks(request) == Range(publications_to_add(request))

\* C29 (as claimed): when two POST /issues/{id}/publications for the same
\* issue are processed concurrently and both report success, the final
\* stored link set of the issue equals the link set of exactly one of the
\* two requests, never a mixture or union of both
C29_FinalLinksOfOneRequest ==
    (\A r \in Requests : /\ linkRace.pc[r] = "responded"
                          /\ linkRace.status[r] = HTTP_OK) =>
        \E r \in Requests :
            SettingsOf(linkRace.table, RACE_ISSUE)
              = RequestedLinks(linkRace.request[r])

\* C30 (as claimed): when two requests that create a publication with the
\* same url are processed concurrently, at most one row with that url is
\* inserted
C30_OneRowInsertedPerUrl ==
    (/\ \A r \in Requests : pubRace.pc[r] = "responded"
     /\ pubRace.request[1].url = pubRace.request[2].url) =>
        Len(SelectByUrl(pubRace.table, pubRace.request[1].url))
          <= Len(SelectByUrl(pubRace.before, pubRace.request[1].url)) + 1

====
